---- MODULE Spec2Model ----
(***************************************************************************)
(* Verification model of chaseconv: the conversion orchestrator            *)
(* (Converter::convert, Scene::merge), the P3M and FRM binary codecs, the  *)
(* FRM keyframe import and the P3M bone hierarchy conversion.              *)
(*                                                                         *)
(* Conventions.  Option<T> is a sequence of length at most one (<<>> is    *)
(* None, <<x>> is Some(x)).  Rust indices are 0-based; a Rust vector v is  *)
(* a TLA+ sequence and v[i] is written v[i + 1].  A Result is a record     *)
(* with a field ok.  An f32 inside a codec is its four bytes, most         *)
(* significant first (the bit pattern); an f32 in arithmetic is an integer.*)
(***************************************************************************)
EXTENDS Integers, Sequences, FiniteSets, TLC

VARIABLES
    mode,        \* which part of the program this behaviour exercises
    pc,          \* position inside the operation being run
    files,       \* Converter::convert: the input files, in input order
    cursor,      \* Converter::convert: number of files the iterator chain has consumed
    acc,         \* Converter::convert: accumulator of reduce (Option<Scene>)
    importLog,   \* Converter::convert: 0-based indices of the files handed to an importer
    exported,    \* Converter::convert: scenes handed to the exporters (one per run at most)
    input,       \* codec / conversion input of the operation being run
    output,      \* result of the first step (decode, export)
    output2,     \* result of the second step (re-encode, re-import)
    output3,     \* result of the third step (re-decode)
    reader       \* codec decode in progress: cursor position and the value built so far

vars ==
    <<mode, pc, files, cursor, acc, importLog, exported, input, output, output2, output3,
      reader>>

convVars == <<files, cursor, acc, importLog, exported>>

ioVars == <<input, output, output2, output3, reader>>

(***************************************************************************)
(* Generic helpers                                                         *)
(***************************************************************************)
None == <<>>

Some(x) == <<x>>

Range(s) == {s[k] : k \in DOMAIN s}

Min(a, b) == IF a < b THEN a ELSE b

\* All sequences over S of length 0..n
SeqsUpTo(S, n) == UNION {[1..k -> S] : k \in 0..n}

RECURSIVE Flatten(_)
\* Concatenation of a sequence of sequences
Flatten(ss) == IF ss = <<>> THEN <<>> ELSE Head(ss) \o Flatten(Tail(ss))

RECURSIVE SumLens(_)
SumLens(ss) == IF ss = <<>> THEN 0 ELSE Len(Head(ss)) + SumLens(Tail(ss))

(***************************************************************************)
(* Scene model (src/scene.rs)                                              *)
(***************************************************************************)
Joint(t, p, c) == [translation |-> t, parent |-> p, children |-> c]

Scene(sk, ms, an) == [skeleton |-> sk, meshes |-> ms, animations |-> an]

\* Scene::default()
SceneDefault == Scene(<<>>, <<>>, <<>>)

\* Mutant of Scene::merge: the other scene's non-empty skeleton always wins.
MergeLastSkeleton(self, other) ==
    Scene(IF other.skeleton # <<>> THEN other.skeleton ELSE self.skeleton,
          self.meshes \o other.meshes,
          self.animations \o other.animations)

\* Mutant of Scene::merge: the other scene's lists are put in front.
MergePrepend(self, other) ==
    Scene(IF self.skeleton = <<>> THEN other.skeleton ELSE self.skeleton,
          other.meshes \o self.meshes,
          other.animations \o self.animations)

\* Scene::merge(self, other)
Merge(self, other) ==
    Scene(IF self.skeleton = <<>> THEN other.skeleton ELSE self.skeleton,
          self.meshes \o other.meshes,
          self.animations \o other.animations)

(***************************************************************************)
(* Converter::convert (src/conversion.rs)                                  *)
(***************************************************************************)
\* Bound: number of input files of one conversion.
MaxFiles == 3

\* Sample skeletons an importer may produce.
SkeletonA == <<Joint(1, None, <<1>>), Joint(2, Some(0), <<>>)>>

SkeletonB == <<Joint(3, None, <<>>)>>

Skeletons == {<<>>, SkeletonA, SkeletonB}

\* A mesh is a name and its vertices' joint indices.
MeshOf(name, joints) == [name |-> name, joints |-> joints]

\* Extensions registered by importers(): FrmImporter, P3mImporter, GltfImporter.
ImporterExtensions == {"frm", "p3m", "gltf", "glb"}

\* str::to_lowercase on the extensions that occur in the model.
ToLowercase(ext) ==
    CASE ext = "FRM" -> "frm"
      [] ext = "P3M" -> "p3m"
      [] ext = "GLB" -> "glb"
      [] OTHER -> ext

\* An animation is a name and the number of transforms of each of its keyframes.
AnimOf(name, transforms) == [name |-> name, transforms |-> transforms]

\* One vertex bound to each joint of the skeleton.
JointsOf(sk) == [k \in DOMAIN sk |-> k - 1]

\* The scenes an importer of the given (lower-cased) extension can leave in
\* the fresh scene it is given: FrmImporter pushes one animation whose
\* keyframes have one transform per bone of the file, P3mImporter sets the
\* skeleton and pushes one mesh whose vertices are bound to its joints,
\* GltfImporter may fill everything.
ImportedScenes(ext) ==
    CASE ext = "frm" -> {Scene(<<>>, <<>>, <<AnimOf("anim_frm", 2)>>)}
      [] ext = "p3m" -> {Scene(sk, <<MeshOf("mesh_p3m", JointsOf(sk))>>, <<>>) : sk \in Skeletons}
      [] OTHER -> UNION {{Scene(sk, ms, an) :
                            ms \in {<<>>, <<MeshOf("g1", JointsOf(sk)), MeshOf("g2", <<>>)>>},
                            an \in {<<>>, <<AnimOf("anim_glb", Len(sk))>>}} :
                         sk \in Skeletons}

\* One input file: whether Asset::from_path can read it, its extension as
\* written in the path, and what its importer returns.
File(r, e, ok, s) == [readable |-> r, ext |-> e, importOk |-> ok, scene |-> s]

InputFiles ==
    {File(FALSE, "p3m", FALSE, SceneDefault), File(TRUE, "txt", FALSE, SceneDefault)}
    \cup {File(TRUE, e, FALSE, SceneDefault) : e \in {"p3m", "FRM", "glb"}}
    \cup UNION {{File(TRUE, e, TRUE, s) : s \in ImportedScenes(ToLowercase(e))} :
                  e \in {"p3m", "FRM", "glb"}}

\* The importer lookup of line 60: importers.get(extension.to_lowercase()).
HasImporter(f) == ToLowercase(f.ext) \in ImporterExtensions

\* The file passes both filter_map stages and yields a scene.
Imports(f) == f.readable /\ HasImporter(f) /\ f.importOk

InitConvert ==
    /\ mode = "convert"
    /\ pc = "import"
    /\ files \in SeqsUpTo(InputFiles, MaxFiles)
    /\ cursor = 0
    /\ acc = None
    /\ importLog = <<>>
    /\ exported = <<>>
    /\ input = <<>> /\ output = <<>> /\ output2 = <<>> /\ output3 = <<>>
    /\ reader = <<>>

\* Asset::from_path fails: the first filter_map drops the file (lines 49-57).
SkipUnreadable ==
    /\ mode = "convert" /\ pc = "import" /\ cursor < Len(files)
    /\ ~files[cursor + 1].readable
    /\ cursor' = cursor + 1
    /\ UNCHANGED <<mode, pc, files, acc, importLog, exported, ioVars>>

\* No importer for the lower-cased extension: skipped (lines 76-83).
SkipUnsupported ==
    /\ mode = "convert" /\ pc = "import" /\ cursor < Len(files)
    /\ files[cursor + 1].readable
    /\ ~HasImporter(files[cursor + 1])
    /\ cursor' = cursor + 1
    /\ UNCHANGED <<mode, pc, files, acc, importLog, exported, ioVars>>

\* Mutant of ImportFailure: an importer error ends the batch.
ImportFailureAborts ==
    /\ mode = "convert" /\ pc = "import" /\ cursor < Len(files)
    /\ files[cursor + 1].readable
    /\ HasImporter(files[cursor + 1])
    /\ ~files[cursor + 1].importOk
    /\ cursor' = Len(files)
    /\ importLog' = Append(importLog, cursor)
    /\ UNCHANGED <<mode, pc, files, acc, exported, ioVars>>

\* The importer returns Err: the scene is dropped (lines 70-73).
ImportFailure ==
    /\ mode = "convert" /\ pc = "import" /\ cursor < Len(files)
    /\ files[cursor + 1].readable
    /\ HasImporter(files[cursor + 1])
    /\ ~files[cursor + 1].importOk
    /\ cursor' = cursor + 1
    /\ importLog' = Append(importLog, cursor)
    /\ UNCHANGED <<mode, pc, files, acc, exported, ioVars>>

\* The importer returns Ok: reduce takes the scene as its first accumulator
\* or merges it into the accumulator (lines 66-69, 88).
ImportSuccess ==
    /\ mode = "convert" /\ pc = "import" /\ cursor < Len(files)
    /\ files[cursor + 1].readable
    /\ HasImporter(files[cursor + 1])
    /\ files[cursor + 1].importOk
    /\ cursor' = cursor + 1
    /\ importLog' = Append(importLog, cursor)
    /\ acc' = IF acc = None THEN Some(files[cursor + 1].scene)
              ELSE Some(Merge(acc[1], files[cursor + 1].scene))
    /\ UNCHANGED <<mode, pc, files, exported, ioVars>>

\* reduce returned Some(scene): every exporter is given the scene (lines 89-138).
Export ==
    /\ mode = "convert" /\ pc = "import" /\ cursor = Len(files)
    /\ acc # None
    /\ exported' = Append(exported, acc[1])
    /\ pc' = "done"
    /\ UNCHANGED <<mode, files, cursor, acc, importLog, ioVars>>

\* reduce returned None: "No assets were exported" (lines 139-141).
NoExport ==
    /\ mode = "convert" /\ pc = "import" /\ cursor = Len(files)
    /\ acc = None
    /\ pc' = "done"
    /\ UNCHANGED <<mode, files, cursor, acc, importLog, exported, ioVars>>

NextConvert ==
    \/ SkipUnreadable
    \/ SkipUnsupported
    \/ ImportFailure
    \/ ImportSuccess
    \/ Export
    \/ NoExport

(***************************************************************************)
(* Claims about Converter::convert and Scene::merge                        *)
(***************************************************************************)
RECURSIVE ScenesOf(_)
\* The scenes of the files that are read, have an importer and import without error.
ScenesOf(fs) ==
    IF fs = <<>> THEN <<>>
    ELSE LET f == Head(fs)
             good == f.readable /\ ToLowercase(f.ext) \in ImporterExtensions /\ f.importOk
         IN (IF good THEN <<f.scene>> ELSE <<>>) \o ScenesOf(Tail(fs))

RECURSIVE FirstNonEmptySkeleton(_)
FirstNonEmptySkeleton(ss) ==
    IF ss = <<>> THEN <<>>
    ELSE IF Head(ss).skeleton # <<>> THEN Head(ss).skeleton
    ELSE FirstNonEmptySkeleton(Tail(ss))

MeshLists(ss) == [k \in DOMAIN ss |-> ss[k].meshes]

AnimationLists(ss) == [k \in DOMAIN ss |-> ss[k].animations]

\* 0-based indices of the files that reach an importer.
HandedToImporter ==
    {k \in 0..(Len(files) - 1) :
        files[k + 1].readable /\ ToLowercase(files[k + 1].ext) \in ImporterExtensions}

\* C1: at every step of the left-to-right fold, the accumulated scene's
\* skeleton is, unchanged, the skeleton of the first imported scene (in input
\* order) whose skeleton is non-empty, and it is empty only if all of them are.
C1_FirstNonEmptySkeletonWins ==
    (mode = "convert" /\ acc # None) =>
        LET seen == ScenesOf(SubSeq(files, 1, cursor))
        IN /\ acc[1].skeleton = FirstNonEmptySkeleton(seen)
           /\ (acc[1].skeleton = <<>> => \A k \in DOMAIN seen : seen[k].skeleton = <<>>)

\* C1 witness: an empty-skeleton scene, then SkeletonB, then SkeletonA were merged.
C1_Witness ==
    /\ mode = "convert" /\ pc = "done" /\ exported # <<>>
    /\ LET ss == ScenesOf(files)
       IN /\ Len(ss) = 3
          /\ ss[1].skeleton = <<>> /\ ss[2].skeleton = SkeletonB /\ ss[3].skeleton = SkeletonA
    /\ exported[1].skeleton = SkeletonB

\* C2: the merged mesh and animation lists are the imported scenes' lists
\* concatenated in input-file order, elements unmodified, lengths the sums.
C2_ListsConcatenated ==
    (mode = "convert" /\ acc # None) =>
        LET seen == ScenesOf(SubSeq(files, 1, cursor))
        IN /\ acc[1].meshes = Flatten(MeshLists(seen))
           /\ acc[1].animations = Flatten(AnimationLists(seen))
           /\ Len(acc[1].meshes) = SumLens(MeshLists(seen))
           /\ Len(acc[1].animations) = SumLens(AnimationLists(seen))

\* C2 witness: three scenes with different mesh and animation lists were merged.
C2_Witness ==
    /\ mode = "convert" /\ pc = "done" /\ exported # <<>>
    /\ LET ss == ScenesOf(files)
       IN /\ Len(ss) = 3
          /\ Len(ss[1].meshes) = 2 /\ ss[1].animations = <<AnimOf("anim_glb", 0)>>
          /\ Len(ss[2].meshes) = 1 /\ ss[3].animations = <<AnimOf("anim_frm", 2)>>
    /\ Len(exported[1].meshes) = 3
    /\ exported[1].meshes[3].name = "mesh_p3m"
    /\ exported[1].animations = <<AnimOf("anim_glb", 0), AnimOf("anim_frm", 2)>>

\* C3: when convert has finished, every file that is readable and has an
\* importer was handed to its importer, in order, whatever happened to the
\* files before it; the exporters ran (once) iff some file imported
\* successfully; and the scene they got is the in-order merge of exactly the
\* successfully imported scenes.
C3_FailuresAreSkipped ==
    (mode = "convert" /\ pc = "done") =>
        LET ss == ScenesOf(files)
        IN /\ Range(importLog) = HandedToImporter
           /\ Len(importLog) = Cardinality(HandedToImporter)
           /\ \A j, k \in DOMAIN importLog : j < k => importLog[j] < importLog[k]
           /\ (exported # <<>>) <=> (ss # <<>>)
           /\ Len(exported) <= 1
           /\ exported # <<>> =>
                exported[1] = Scene(FirstNonEmptySkeleton(ss),
                                    Flatten(MeshLists(ss)),
                                    Flatten(AnimationLists(ss)))

\* C3 witness: an importer error and a skipped file precede a successful import.
C3_Witness ==
    /\ mode = "convert" /\ pc = "done" /\ Len(files) = 3
    /\ files[1].readable /\ HasImporter(files[1]) /\ ~files[1].importOk
    /\ (~files[2].readable \/ ~HasImporter(files[2]))
    /\ Imports(files[3])
    /\ exported = <<files[3].scene>>
    /\ importLog = <<0, 2>>

\* Every joint index stored in the scene is an index into its skeleton, and
\* no keyframe has more transforms than the skeleton has joints.
SceneIndicesValid(scene) ==
    /\ \A m \in DOMAIN scene.meshes : \A v \in DOMAIN scene.meshes[m].joints :
          scene.meshes[m].joints[v] < Len(scene.skeleton)
    /\ \A j \in DOMAIN scene.skeleton :
          /\ scene.skeleton[j].parent # None => scene.skeleton[j].parent[1] < Len(scene.skeleton)
          /\ \A c \in DOMAIN scene.skeleton[j].children :
                scene.skeleton[j].children[c] < Len(scene.skeleton)
    /\ \A a \in DOMAIN scene.animations : scene.animations[a].transforms <= Len(scene.skeleton)

\* C18: after any sequence of imports and merges, every joint index stored
\* in the accumulated scene (vertex joints, joint parents and children) is a
\* valid index into that scene's skeleton or absent, and no keyframe has a
\* transform slot outside the skeleton.
C18_JointIndicesValid ==
    (mode = "convert" /\ acc # None) => SceneIndicesValid(acc[1])

(***************************************************************************)
(* Byte cursor (std::io::Cursor<&[u8]> with byteorder), as used by the     *)
(* codecs.  A read returns [ok, pos, val]: whether it succeeded, the       *)
(* cursor position afterwards and the value read.                          *)
(***************************************************************************)
Rd(ok, pos, val) == [ok |-> ok, pos |-> pos, val |-> val]

Err == [ok |-> FALSE]

Ok(v) == [ok |-> TRUE, val |-> v]

Reverse(s) == [k \in 1..Len(s) |-> s[Len(s) + 1 - k]]

Zeros(n) == [k \in 1..n |-> 0]

\* Number of bytes left at pos (a cursor may stand beyond the end after a seek).
Remaining(b, pos) == IF pos >= Len(b) THEN 0 ELSE Len(b) - pos

\* Read::read_exact: on success the n bytes and the advanced cursor.  On
\* failure the position is the one the caller must not rely on; every
\* caller but read_string propagates the error and drops the cursor.
ReadExact(b, pos, n) ==
    IF Remaining(b, pos) >= n THEN Rd(TRUE, pos + n, SubSeq(b, pos + 1, pos + n))
    ELSE Rd(FALSE, pos, <<>>)

\* ReadBytesExt::read_u8
ReadU8(b, pos) ==
    LET r == ReadExact(b, pos, 1)
    IN IF r.ok THEN Rd(TRUE, r.pos, r.val[1]) ELSE r

\* u16 from two little-endian bytes
U16FromLE(bs) == bs[1] + 256 * bs[2]

\* Mutant of U16ToLE: the two bytes are written big-endian.
U16ToBE(v) == <<(v \div 256) % 256, v % 256>>

\* the two little-endian bytes of a u16 (WriteBytesExt::write_u16::<LE>)
U16ToLE(v) == <<v % 256, (v \div 256) % 256>>

\* ReadBytesExt::read_u16::<LE>
ReadU16(b, pos) ==
    LET r == ReadExact(b, pos, 2)
    IN IF r.ok THEN Rd(TRUE, r.pos, U16FromLE(r.val)) ELSE r

\* f32::from_bits of four little-endian bytes: the bit pattern, most
\* significant byte first.
F32FromLE(bs) == Reverse(bs)

\* WriteBytesExt::write_f32::<LE>
F32ToLE(f) == Reverse(f)

\* ReadBytesExt::read_f32::<LE>
ReadF32(b, pos) ==
    LET r == ReadExact(b, pos, 4)
    IN IF r.ok THEN Rd(TRUE, r.pos, F32FromLE(r.val)) ELSE r

\* ReadBytesExt::read_f32_into::<LE> for a destination of n floats
ReadF32Into(b, pos, n) ==
    LET r == ReadExact(b, pos, 4 * n)
    IN IF r.ok
       THEN Rd(TRUE, r.pos, [k \in 1..n |-> F32FromLE(SubSeq(r.val, 4 * k - 3, 4 * k))])
       ELSE r

\* the bytes of a sequence of f32 written one after the other
WriteF32s(fs) == Flatten([k \in DOMAIN fs |-> F32ToLE(fs[k])])

\* Seek::seek(SeekFrom::Current(n)): never fails, may pass the end
SeekCurrent(pos, n) == pos + n

(***************************************************************************)
(* Strings of the P3M codec (src/format/p3m/internal.rs, mod util).  A     *)
(* String is the sequence of its UTF-8 bytes.                              *)
(***************************************************************************)
IsCont(x) == x >= 128 /\ x <= 191

\* Number of continuation bytes a UTF-8 lead byte announces; -1 for a byte
\* that cannot start a character.
Utf8Need(c) ==
    IF c < 128 THEN 0
    ELSE IF c >= 194 /\ c <= 223 THEN 1
    ELSE IF c >= 224 /\ c <= 239 THEN 2
    ELSE IF c >= 240 /\ c <= 244 THEN 3
    ELSE -1

\* String::from_utf8 succeeds on these bytes: every byte that is not a
\* continuation byte starts a well-formed character, and every continuation
\* byte belongs to the character started by the nearest byte before it.
IsUtf8(bs) ==
    \A k \in DOMAIN bs :
        LET c == bs[k]
        IN IF IsCont(c)
           THEN \E j \in 1..3 :
                   /\ k - j >= 1
                   /\ ~IsCont(bs[k - j])
                   /\ Utf8Need(bs[k - j]) >= j
                   /\ \A m \in (k - j + 1)..(k - 1) : IsCont(bs[m])
           ELSE /\ Utf8Need(c) >= 0
                /\ k + Utf8Need(c) <= Len(bs)
                /\ \A m \in (k + 1)..(k + Utf8Need(c)) : IsCont(bs[m])
                /\ (c = 224 => bs[k + 1] >= 160)
                /\ (c = 237 => bs[k + 1] <= 159)
                /\ (c = 240 => bs[k + 1] >= 144)
                /\ (c = 244 => bs[k + 1] <= 143)

\* memchr::memchr(0, bytes).unwrap_or(max_len): index of the first null byte
FirstNull(bs) ==
    IF \E k \in DOMAIN bs : bs[k] = 0
    THEN (CHOOSE k \in DOMAIN bs : bs[k] = 0 /\ \A j \in 1..(k - 1) : bs[j] # 0) - 1
    ELSE Len(bs)

\* util::read_string.  eof is what the build's Cursor::read_exact does with
\* the position when it fails ("stay": unchanged, "end": moved to the end);
\* the standard library leaves it unspecified and both occur.
ReadString(b, pos, max_len, eof) ==
    LET r == ReadExact(b, pos, max_len)
    IN IF ~r.ok THEN Rd(FALSE, IF eof = "end" THEN Len(b) ELSE pos, <<>>)
       ELSE LET text == SubSeq(r.val, 1, FirstNull(r.val))
            IN IF IsUtf8(text) THEN Rd(TRUE, r.pos, text)
               ELSE Rd(FALSE, r.pos, <<>>)

\* util::write_string
WriteString(string, max_len) ==
    LET len == Min(Len(string), max_len)
    IN SubSeq(string, 1, len) \o Zeros(max_len - len)

\* Result<String>::unwrap_or_default
UnwrapOrDefault(r) == IF r.ok THEN r.val ELSE <<>>

(***************************************************************************)
(* P3M codec (src/format/p3m/internal.rs)                                  *)
(***************************************************************************)
\* "Perfact 3D Model (Ver 0.5)\0"
VERSION_HEADER ==
    <<80, 101, 114, 102, 97, 99, 116, 32, 51, 68, 32, 77, 111, 100, 101, 108, 32,
      40, 86, 101, 114, 32, 48, 46, 53, 41, 0>>

INVALID_BONE_INDEX == 255

TEXTURE_NAME_LEN == 260

\* Number of child slots of a bone (the loops 0..10).
BONE_CHILD_SLOTS == 10

P3m(vh, pb, ab, tn, fa, sv, mv) ==
    [version_header |-> vh, position_bones |-> pb, angle_bones |-> ab,
     texture_name |-> tn, faces |-> fa, skin_vertices |-> sv, mesh_vertices |-> mv]

PositionBone(p, c) == [position |-> p, children |-> c]

AngleBone(p, s, c) == [position |-> p, scale |-> s, children |-> c]

SkinVertex(p, w, b, n, uv) ==
    [position |-> p, weight |-> w, bone_index |-> b, normal |-> n, uv |-> uv]

MeshVertex(p, n, uv) == [position |-> p, normal |-> n, uv |-> uv]

RECURSIVE ValidChildren(_)
\* the child slots read in order, keeping those that are not INVALID_BONE_INDEX
ValidChildren(slots) ==
    IF slots = <<>> THEN <<>>
    ELSE (IF Head(slots) # INVALID_BONE_INDEX THEN <<Head(slots)>> ELSE <<>>)
         \o ValidChildren(Tail(slots))

\* Mutant of ChildSlots: unused slots are written as 0 instead of 255.
ChildSlotsZeroFill(children) ==
    [x \in 1..BONE_CHILD_SLOTS |-> IF x - 1 < Len(children) THEN children[x] ELSE 0]

\* the 10 child slots written by to_bytes: the children, then INVALID_BONE_INDEX
ChildSlots(children) ==
    [x \in 1..BONE_CHILD_SLOTS |->
        IF x - 1 < Len(children) THEN children[x] ELSE INVALID_BONE_INDEX]

\* PositionBone::from_reader.  The reads are of fixed sizes, so each one
\* starts at a fixed offset from the start of the bone.
PositionBoneFromReader(b, pos) ==
    LET p == ReadF32Into(b, pos, 3)
        c == ReadExact(b, pos + 12, BONE_CHILD_SLOTS)
    IN IF ~p.ok THEN p
       ELSE IF ~c.ok THEN c
       ELSE Rd(TRUE, SeekCurrent(c.pos, 2), PositionBone(p.val, ValidChildren(c.val)))

\* PositionBone::to_bytes
PositionBoneToBytes(bone) ==
    WriteF32s(bone.position) \o ChildSlots(bone.children) \o U16ToLE(65535)

\* AngleBone::from_reader
AngleBoneFromReader(b, pos) ==
    LET p == ReadF32Into(b, pos, 3)
        s == ReadF32(b, pos + 12)
        c == ReadExact(b, pos + 16, BONE_CHILD_SLOTS)
    IN IF ~p.ok THEN p
       ELSE IF ~s.ok THEN s
       ELSE IF ~c.ok THEN c
       ELSE Rd(TRUE, SeekCurrent(c.pos, 2),
               AngleBone(p.val, s.val, ValidChildren(c.val)))

\* AngleBone::to_bytes
AngleBoneToBytes(bone) ==
    WriteF32s(bone.position) \o F32ToLE(bone.scale)
    \o ChildSlots(bone.children) \o U16ToLE(65535)

\* SkinVertex::from_reader
SkinVertexFromReader(b, pos) ==
    LET p == ReadF32Into(b, pos, 3)
        w == ReadF32(b, pos + 12)
        i == ReadU8(b, pos + 16)
        n == ReadF32Into(b, SeekCurrent(pos + 17, 3), 3)
        uv == ReadF32Into(b, pos + 32, 2)
    IN IF ~p.ok THEN p
       ELSE IF ~w.ok THEN w
       ELSE IF ~i.ok THEN i
       ELSE IF ~n.ok THEN n
       ELSE IF ~uv.ok THEN uv
       ELSE Rd(TRUE, uv.pos, SkinVertex(p.val, w.val, i.val, n.val, uv.val))

\* SkinVertex::to_bytes
SkinVertexToBytes(v) ==
    WriteF32s(v.position) \o F32ToLE(v.weight)
    \o <<v.bone_index, v.bone_index, INVALID_BONE_INDEX, INVALID_BONE_INDEX>>
    \o WriteF32s(v.normal) \o WriteF32s(v.uv)

\* MeshVertex::from_reader
MeshVertexFromReader(b, pos) ==
    LET p == ReadF32Into(b, pos, 3)
        n == ReadF32Into(b, pos + 12, 3)
        uv == ReadF32Into(b, pos + 24, 2)
    IN IF ~p.ok THEN p
       ELSE IF ~n.ok THEN n
       ELSE IF ~uv.ok THEN uv
       ELSE Rd(TRUE, uv.pos, MeshVertex(p.val, n.val, uv.val))

\* MeshVertex::to_bytes
MeshVertexToBytes(v) == WriteF32s(v.position) \o WriteF32s(v.normal) \o WriteF32s(v.uv)

\* one face: reader.read_u16_into::<LE>(&mut face)
FaceFromReader(b, pos) ==
    LET r == ReadExact(b, pos, 6)
    IN IF r.ok
       THEN Rd(TRUE, r.pos, [k \in 1..3 |-> U16FromLE(SubSeq(r.val, 2 * k - 1, 2 * k))])
       ELSE r

FaceToBytes(face) == Flatten([k \in DOMAIN face |-> U16ToLE(face[k])])

\* P3m::new(): the value from_bytes starts from (Default for P3m)
P3mNew ==
    P3m(SubSeq(VERSION_HEADER, 1, Len(VERSION_HEADER) - 1), <<>>, <<>>, <<>>, <<>>, <<>>, <<>>)

\* The state of P3m::from_bytes at its start: Cursor::new(bytes), P3m::new().
ReaderStart ==
    [stage |-> "header", pos |-> 0, npb |-> 0, nab |-> 0, nv |-> 0, nf |-> 0, p3m |-> P3mNew]

\* P3m::to_bytes (it has no failing path: writes to a Vec<u8>)
P3mToBytes(p) ==
    WriteString(p.version_header, Len(VERSION_HEADER))
    \o <<Len(p.position_bones) % 256, Len(p.angle_bones) % 256>>
    \o Flatten([k \in DOMAIN p.position_bones |-> PositionBoneToBytes(p.position_bones[k])])
    \o Flatten([k \in DOMAIN p.angle_bones |-> AngleBoneToBytes(p.angle_bones[k])])
    \o U16ToLE(Len(p.skin_vertices) % 65536)
    \o U16ToLE(Len(p.faces) % 65536)
    \o WriteString(p.texture_name, TEXTURE_NAME_LEN)
    \o Flatten([k \in DOMAIN p.faces |-> FaceToBytes(p.faces[k])])
    \o Flatten([k \in DOMAIN p.skin_vertices |-> SkinVertexToBytes(p.skin_vertices[k])])
    \o Flatten([k \in DOMAIN p.mesh_vertices |-> MeshVertexToBytes(p.mesh_vertices[k])])

(***************************************************************************)
(* P3M byte buffers the codec is run on                                    *)
(***************************************************************************)
\* Bounds: bones per bone list, vertices, faces of a sample buffer.
MaxBones == 1

MaxVertices == 1

MaxFaces == 1

\* little-endian bytes of 0.0f32 and of 1.0f32
LE_F0 == <<0, 0, 0, 0>>

LE_F1 == <<0, 0, 128, 63>>

\* A fixed-size text field: the text, then fill bytes.
Field(text, n) == text \o Zeros(n - Len(text))

\* Sample contents of a text field of n bytes: the codec's own header, an
\* empty text, the invalid UTF-8 of tests::read_str_invalid, a text with
\* bytes after its null terminator, a two-byte UTF-8 character, and a text
\* that fills the field without a terminator.
TextField(variant, n) ==
    CASE variant = "std" -> Field(SubSeq(VERSION_HEADER, 1, Min(n, Len(VERSION_HEADER))), n)
      [] variant = "empty" -> Zeros(n)
      [] variant = "invalid" -> Field(<<248, 161, 161, 161, 161>>, n)
      [] variant = "junk" -> Field(<<65, 0, 66>>, n)
      [] variant = "multibyte" -> Field(<<72, 195, 169>>, n)
      [] variant = "full" -> [k \in 1..n |-> 65]

TextVariants == {"std", "empty", "invalid", "junk", "multibyte", "full"}

\* The 10 child slots and 2 padding bytes of sample bone k (0-based):
\* canonical slots, a hole before the child, or padding bytes other than ff.
BoneTail(variant, k) ==
    CASE variant = "canon" -> <<k, 1>> \o [x \in 1..10 |-> 255]
      [] variant = "hole" -> <<255, k, 1>> \o [x \in 1..9 |-> 255]
      [] variant = "pad0" -> <<k>> \o [x \in 1..9 |-> 255] \o <<0, 0>>

BoneVariants == {"canon", "hole", "pad0"}

SamplePositionBones(variant, n) ==
    Flatten([k \in 1..n |-> LE_F1 \o LE_F0 \o LE_F0 \o BoneTail(variant, k - 1)])

SampleAngleBones(variant, n) ==
    Flatten([k \in 1..n |-> LE_F0 \o LE_F0 \o LE_F0 \o LE_F1 \o BoneTail(variant, k - 1)])

\* Sample skin vertex k: the three unused bone-index bytes either as
\* SkinVertex::to_bytes writes them or holding other values.
SampleSkinVertices(variant, n) ==
    Flatten([k \in 1..n |->
        LE_F1 \o LE_F0 \o LE_F1 \o LE_F1
        \o (IF variant = "std" THEN <<k, k, 255, 255>> ELSE <<k, 7, 7, 7>>)
        \o LE_F1 \o LE_F0 \o LE_F0 \o LE_F0 \o LE_F1])

VertexVariants == {"std", "junk"}

SampleMeshVertices(n) ==
    Flatten([k \in 1..n |-> LE_F0 \o LE_F1 \o LE_F0 \o LE_F1 \o LE_F0 \o LE_F0 \o LE_F1 \o LE_F1])

SampleFaces(n) == Flatten([k \in 1..n |-> <<0, 0, k, 0, 2, 1>>])

\* A complete P3M file in the layout of P3m::to_bytes / from_bytes.
SampleP3m(hv, tv, bv, vv, npb, nab, nv, nf) ==
    TextField(hv, Len(VERSION_HEADER)) \o <<npb, nab>>
    \o SamplePositionBones(bv, npb) \o SampleAngleBones(bv, nab)
    \o <<nv, 0>> \o <<nf, 0>>
    \o TextField(tv, TEXTURE_NAME_LEN)
    \o SampleFaces(nf) \o SampleSkinVertices(vv, nv) \o SampleMeshVertices(nv)

\* Offset of the texture-name field in a file with these bone counts.
TextureOffset(npb, nab) == Len(VERSION_HEADER) + 2 + 24 * npb + 28 * nab + 4

\* Lengths a sample file is cut to: inside and at the end of every part of
\* the layout, the whole file, and the file followed by one more byte.
CutLengths(full, npb, nab, nf) ==
    LET t == TextureOffset(npb, nab)
    IN {6, Len(VERSION_HEADER) + 1, t - 1, t, t + 100,
        t + TEXTURE_NAME_LEN + 6 * nf - 1, Len(full) - 1, Len(full), Len(full) + 1}

CutTo(full, n) == IF n > Len(full) THEN full \o <<9>> ELSE SubSeq(full, 1, n)

\* What Cursor::read_exact does with the position when it fails.
EofModes == {"stay", "end"}

\* The sample files vary one thing at a time: the contents of the version
\* header and texture name fields, and the bytes the decoder skips.
TextPairs ==
    {<<"std", "empty">>, <<"std", "full">>, <<"std", "invalid">>, <<"invalid", "empty">>,
     <<"junk", "empty">>, <<"multibyte", "full">>}

SkippedPairs ==
    {<<"canon", "std">>, <<"hole", "std">>, <<"pad0", "std">>, <<"canon", "junk">>}

InitP3m ==
    /\ mode = "p3m"
    /\ pc = "decode"
    /\ reader = ReaderStart
    /\ \E tx \in TextPairs, sk \in SkippedPairs,
          npb \in 0..MaxBones, nab \in 0..MaxBones, nv \in 0..MaxVertices,
          nf \in 0..MaxFaces, eof \in EofModes :
          LET full == SampleP3m(tx[1], tx[2], sk[1], sk[2], npb, nab, nv, nf)
          IN \E n \in CutLengths(full, npb, nab, nf) :
                input = [bytes |-> CutTo(full, n), eof |-> eof]
    /\ output = <<>> /\ output2 = <<>> /\ output3 = <<>>
    /\ files = <<>> /\ cursor = 0 /\ acc = None /\ importLog = <<>> /\ exported = <<>>

\* The bytes being decoded: the input, or the re-encoded bytes.
Source == IF pc = "decode" THEN input.bytes ELSE output2

Decoding == mode = "p3m" /\ pc \in {"decode", "redecode"}

\* from_bytes returns: the result goes to the caller.
Return(result) ==
    IF pc = "decode"
    THEN /\ output' = result
         /\ pc' = IF result.ok THEN "decoded" ELSE "failed"
         /\ UNCHANGED output3
    ELSE /\ output3' = result
         /\ pc' = "redecoded"
         /\ UNCHANGED output

\* from_bytes goes on with the reader r.
Continue(r) == reader' = r /\ UNCHANGED <<pc, output, output3>>

\* Lines 41-44: the version header (its error replaced by the default
\* string), then the two bone counts.
P3mReadHeader ==
    /\ Decoding /\ reader.stage = "header"
    /\ LET vh == ReadString(Source, 0, Len(VERSION_HEADER), input.eof)
           npb == ReadU8(Source, vh.pos)
           nab == ReadU8(Source, vh.pos + 1)
       IN IF npb.ok /\ nab.ok
          THEN Continue([reader EXCEPT !.stage = "bones", !.pos = nab.pos,
                                       !.npb = npb.val, !.nab = nab.val,
                                       !.p3m.version_header = UnwrapOrDefault(vh)])
          ELSE Return(Err) /\ UNCHANGED reader
    /\ UNCHANGED <<mode, convVars, input, output2>>

\* Lines 46-49: one iteration of the position-bone loop.
P3mReadPositionBone ==
    /\ Decoding /\ reader.stage = "bones"
    /\ Len(reader.p3m.position_bones) < reader.npb
    /\ LET r == PositionBoneFromReader(Source, reader.pos)
       IN IF r.ok
          THEN Continue([reader EXCEPT !.pos = r.pos,
                            !.p3m.position_bones = Append(@, r.val)])
          ELSE Return(Err) /\ UNCHANGED reader
    /\ UNCHANGED <<mode, convVars, input, output2>>

\* Lines 50-52: one iteration of the angle-bone loop.
P3mReadAngleBone ==
    /\ Decoding /\ reader.stage = "bones"
    /\ Len(reader.p3m.position_bones) = reader.npb
    /\ Len(reader.p3m.angle_bones) < reader.nab
    /\ LET r == AngleBoneFromReader(Source, reader.pos)
       IN IF r.ok
          THEN Continue([reader EXCEPT !.pos = r.pos,
                            !.p3m.angle_bones = Append(@, r.val)])
          ELSE Return(Err) /\ UNCHANGED reader
    /\ UNCHANGED <<mode, convVars, input, output2>>

\* Lines 54-57: the vertex and face counts, then the texture name (its
\* error replaced by the default string).
P3mReadCounts ==
    /\ Decoding /\ reader.stage = "bones"
    /\ Len(reader.p3m.position_bones) = reader.npb
    /\ Len(reader.p3m.angle_bones) = reader.nab
    /\ LET nv == ReadU16(Source, reader.pos)
           nf == ReadU16(Source, reader.pos + 2)
           tn == ReadString(Source, reader.pos + 4, TEXTURE_NAME_LEN, input.eof)
       IN IF nv.ok /\ nf.ok
          THEN Continue([reader EXCEPT !.stage = "items", !.pos = tn.pos,
                                       !.nv = nv.val, !.nf = nf.val,
                                       !.p3m.texture_name = UnwrapOrDefault(tn)])
          ELSE Return(Err) /\ UNCHANGED reader
    /\ UNCHANGED <<mode, convVars, input, output2>>

\* Lines 59-63: one iteration of the face loop.
P3mReadFace ==
    /\ Decoding /\ reader.stage = "items"
    /\ Len(reader.p3m.faces) < reader.nf
    /\ LET r == FaceFromReader(Source, reader.pos)
       IN IF r.ok
          THEN Continue([reader EXCEPT !.pos = r.pos, !.p3m.faces = Append(@, r.val)])
          ELSE Return(Err) /\ UNCHANGED reader
    /\ UNCHANGED <<mode, convVars, input, output2>>

\* Lines 64-67: one iteration of the skin-vertex loop.
P3mReadSkinVertex ==
    /\ Decoding /\ reader.stage = "items"
    /\ Len(reader.p3m.faces) = reader.nf
    /\ Len(reader.p3m.skin_vertices) < reader.nv
    /\ LET r == SkinVertexFromReader(Source, reader.pos)
       IN IF r.ok
          THEN Continue([reader EXCEPT !.pos = r.pos,
                            !.p3m.skin_vertices = Append(@, r.val)])
          ELSE Return(Err) /\ UNCHANGED reader
    /\ UNCHANGED <<mode, convVars, input, output2>>

\* Lines 68-71: one iteration of the mesh-vertex loop.
P3mReadMeshVertex ==
    /\ Decoding /\ reader.stage = "items"
    /\ Len(reader.p3m.faces) = reader.nf
    /\ Len(reader.p3m.skin_vertices) = reader.nv
    /\ Len(reader.p3m.mesh_vertices) < reader.nv
    /\ LET r == MeshVertexFromReader(Source, reader.pos)
       IN IF r.ok
          THEN Continue([reader EXCEPT !.pos = r.pos,
                            !.p3m.mesh_vertices = Append(@, r.val)])
          ELSE Return(Err) /\ UNCHANGED reader
    /\ UNCHANGED <<mode, convVars, input, output2>>

\* Line 73: Ok(p3m)
P3mReturnOk ==
    /\ Decoding /\ reader.stage = "items"
    /\ Len(reader.p3m.faces) = reader.nf
    /\ Len(reader.p3m.skin_vertices) = reader.nv
    /\ Len(reader.p3m.mesh_vertices) = reader.nv
    /\ Return(Ok(reader.p3m))
    /\ UNCHANGED <<mode, convVars, input, output2, reader>>

\* p3m.to_bytes() on the decoded value; the bytes are then decoded again.
P3mEncode ==
    /\ mode = "p3m" /\ pc = "decoded"
    /\ output2' = P3mToBytes(output.val)
    /\ reader' = ReaderStart
    /\ pc' = "redecode"
    /\ UNCHANGED <<mode, convVars, input, output, output3>>

NextP3m ==
    \/ P3mReadHeader
    \/ P3mReadPositionBone
    \/ P3mReadAngleBone
    \/ P3mReadCounts
    \/ P3mReadFace
    \/ P3mReadSkinVertex
    \/ P3mReadMeshVertex
    \/ P3mReturnOk
    \/ P3mEncode

SpecP3m == InitP3m /\ [][NextP3m]_vars

(***************************************************************************)
(* Claims about the P3M codec.  The layout of a buffer is read here        *)
(* directly from its bytes, by offset, independently of the decoder.       *)
(***************************************************************************)
\* 0-based offset of the vertex and face counts, given the two bone counts
\* stored right after the version header.
CountsOffset(b) ==
    Len(VERSION_HEADER) + 2
    + 24 * b[Len(VERSION_HEADER) + 1] + 28 * b[Len(VERSION_HEADER) + 2]

\* The length the fixed layout and the buffer's own counts imply.  When the
\* buffer ends before a count, the count is taken as zero (the shortest
\* layout that count allows).
ImpliedLength(b) ==
    IF Len(b) < Len(VERSION_HEADER) + 2
    THEN Len(VERSION_HEADER) + 2 + 4 + TEXTURE_NAME_LEN
    ELSE IF Len(b) < CountsOffset(b) + 4
    THEN CountsOffset(b) + 4 + TEXTURE_NAME_LEN
    ELSE LET c == CountsOffset(b)
             nv == b[c + 1] + 256 * b[c + 2]
             nf == b[c + 3] + 256 * b[c + 4]
         IN c + 4 + TEXTURE_NAME_LEN + 6 * nf + 40 * nv + 32 * nv

Truncated(b) == Len(b) < ImpliedLength(b)

\* b[from+1 .. from+n] as a text field: what precedes its first null byte
TextOf(b, from, n) ==
    LET field == SubSeq(b, from + 1, from + n)
    IN SubSeq(field, 1, FirstNull(field))

\* A text field is clean: valid UTF-8 up to its first null byte, zero after it.
CleanText(b, from, n) ==
    LET text == TextOf(b, from, n)
    IN /\ IsUtf8(text)
       /\ \A k \in (from + Len(text) + 1)..(from + n) : b[k] = 0

\* 0-based offsets of the child slots of every bone of a complete buffer
SlotOffsets(b) ==
    LET npb == b[Len(VERSION_HEADER) + 1]
        nab == b[Len(VERSION_HEADER) + 2]
        base == Len(VERSION_HEADER) + 2
    IN {base + 24 * k + 12 : k \in 0..(npb - 1)}
       \cup {base + 24 * npb + 28 * k + 16 : k \in 0..(nab - 1)}

\* 0-based offsets of the bone-index byte of every skin vertex
BoneIndexOffsets(b) ==
    LET c == CountsOffset(b)
        nv == b[c + 1] + 256 * b[c + 2]
        nf == b[c + 3] + 256 * b[c + 4]
    IN {c + 4 + TEXTURE_NAME_LEN + 6 * nf + 40 * k + 16 : k \in 0..(nv - 1)}

\* Well-formed: exactly the implied length, both text fields clean.
WellFormed(b) ==
    /\ Len(b) = ImpliedLength(b)
    /\ CleanText(b, 0, Len(VERSION_HEADER))
    /\ CleanText(b, CountsOffset(b) + 4, TEXTURE_NAME_LEN)

\* Canonical child slots: in every bone, no valid index after a 255.
CanonicalSlots(b) ==
    \A o \in SlotOffsets(b) : \A k \in 1..(BONE_CHILD_SLOTS - 1) :
        b[o + k] = INVALID_BONE_INDEX => b[o + k + 1] = INVALID_BONE_INDEX

\* The bytes the decoder skips hold what the encoder writes: ff ff after the
\* child slots, and (bone_index, ff, ff) after a skin vertex's bone index.
SkippedBytesAsWritten(b) ==
    /\ \A o \in SlotOffsets(b) :
          b[o + BONE_CHILD_SLOTS + 1] = 255 /\ b[o + BONE_CHILD_SLOTS + 2] = 255
    /\ \A o \in BoneIndexOffsets(b) :
          b[o + 2] = b[o + 1] /\ b[o + 3] = 255 /\ b[o + 4] = 255

\* C4: a decoded P3m value survives encoding and decoding again: the second
\* decode succeeds and returns a value equal to the first in every field.
C4_ValueRoundTrip ==
    (mode = "p3m" /\ pc = "redecoded") => (output3.ok /\ output3.val = output.val)

\* C4 witness: a value with bones, children, a face and vertices, decoded
\* from bytes that its re-encoding does not reproduce, was decoded again.
C4_Witness ==
    /\ mode = "p3m" /\ pc = "redecoded"
    /\ output.val.position_bones # <<>> /\ output.val.angle_bones # <<>>
    /\ output.val.position_bones[1].children # <<>>
    /\ output.val.faces # <<>> /\ output.val.skin_vertices # <<>>
    /\ output.val.mesh_vertices # <<>>
    /\ output.val.version_header # <<>>
    /\ output2 # input.bytes
    /\ output3.ok

\* to_bytes has just returned output2 for the value decoded from input.bytes.
JustEncoded == mode = "p3m" /\ pc = "redecode" /\ reader.stage = "header"

\* C5 as claimed: every well-formed buffer with canonical child slots is
\* reproduced byte for byte by decode then encode.
C5_Original ==
    (JustEncoded
     /\ WellFormed(input.bytes) /\ CanonicalSlots(input.bytes))
        => output2 = input.bytes

\* C5 amended: a well-formed buffer (exact length, clean text fields) with
\* canonical child slots whose skipped bytes hold what the encoder writes
\* (ff ff bone padding; bone_index, ff, ff after each skin vertex's bone
\* index) is reproduced byte for byte by decode then encode.
C5_ByteRoundTrip ==
    (JustEncoded
     /\ WellFormed(input.bytes) /\ CanonicalSlots(input.bytes)
     /\ SkippedBytesAsWritten(input.bytes))
        => output2 = input.bytes

\* C5 witness: such a buffer with bones, a face and vertices was re-encoded.
C5_Witness ==
    /\ JustEncoded
    /\ WellFormed(input.bytes) /\ CanonicalSlots(input.bytes)
    /\ SkippedBytesAsWritten(input.bytes)
    /\ Cardinality(SlotOffsets(input.bytes)) = 2
    /\ BoneIndexOffsets(input.bytes) # {}
    /\ output.val.faces # <<>>
    /\ output.val.version_header # <<>>
    /\ output2 = input.bytes

\* C6 as claimed: a buffer shorter than its implied length is never decoded
\* (stated for the builds whose cursor moves to the end on a failed read).
C6_TruncatedIsError ==
    (mode = "p3m" /\ pc \in {"decoded", "failed"} /\ input.eof = "end"
     /\ Truncated(input.bytes))
        => ~output.ok

\* The buffer holds a complete text field at offset from whose text before
\* the first null byte is not valid UTF-8.
InvalidText(b, from, n) == Len(b) >= from + n /\ ~IsUtf8(TextOf(b, from, n))

\* C7 as claimed: invalid UTF-8 in the version header or in the texture
\* name makes the decode fail (stated for buffers of complete length, so
\* that nothing but the text is wrong with the buffer).
C7_InvalidUtf8IsError ==
    (mode = "p3m" /\ pc \in {"decoded", "failed"}
     /\ ~Truncated(input.bytes)
     /\ \/ InvalidText(input.bytes, 0, Len(VERSION_HEADER))
        \/ /\ Len(input.bytes) >= Len(VERSION_HEADER) + 2
           /\ Len(input.bytes) >= CountsOffset(input.bytes) + 4
           /\ InvalidText(input.bytes, CountsOffset(input.bytes) + 4, TEXTURE_NAME_LEN))
        => ~output.ok

(***************************************************************************)
(* FRM codec (src/grandchase/formats/frm.rs)                               *)
(***************************************************************************)
\* VERSION_HEADER of frm.rs: "Frm Ver 1.1\0"
FRM_VERSION_HEADER == <<70, 114, 109, 32, 86, 101, 114, 32, 49, 46, 49, 0>>

\* the bit pattern of 0.0f32
F32_ZERO == <<0, 0, 0, 0>>

Frm(version, frames) == [version |-> version, frames |-> frames]

\* Frm::new
FrmNew(version) == Frm(version, <<>>)

Frame(o, x, y, z, bones) == [option |-> o, pos_x |-> x, pos_y |-> y, pos_z |-> z, bones |-> bones]

\* Frame::new
FrameNew == Frame(0, F32_ZERO, F32_ZERO, F32_ZERO, <<>>)

\* Frame::from_reader: the option byte, pos_x, pos_y, then num_bones
\* matrices of four rows of four floats.  pos_z keeps the value of new().
FrameFromReader(b, pos, num_bones) ==
    LET option == ReadU8(b, pos)
        pos_x == ReadF32(b, pos + 1)
        pos_y == ReadF32(b, pos + 5)
        row(k, i) == ReadF32Into(b, pos + 9 + 64 * (k - 1) + 16 * (i - 1), 4)
    IN IF /\ option.ok /\ pos_x.ok /\ pos_y.ok
          /\ \A k \in 1..num_bones, i \in 1..4 : row(k, i).ok
       THEN Rd(TRUE, pos + 9 + 64 * num_bones,
               Frame(option.val, pos_x.val, pos_y.val, FrameNew.pos_z,
                     [k \in 1..num_bones |-> [i \in 1..4 |-> row(k, i).val]]))
       ELSE Rd(FALSE, pos, <<>>)

\* Frame::into_bytes
FrameIntoBytes(frame) ==
    <<frame.option>> \o F32ToLE(frame.pos_x) \o F32ToLE(frame.pos_y)
    \o Flatten([k \in DOMAIN frame.bones |->
           Flatten([i \in 1..4 |-> WriteF32s(frame.bones[k][i])])])

\* Frm::num_bones
FrmNumBones(f) == IF f.frames = <<>> THEN 0 ELSE Len(f.frames[1].bones)

\* Frm::to_bytes
FrmToBytes(f) ==
    IF f.version = "V1_0"
    THEN <<Len(f.frames) % 256, FrmNumBones(f) % 256>>
         \o Flatten([k \in DOMAIN f.frames |-> FrameIntoBytes(f.frames[k])])
    ELSE FRM_VERSION_HEADER
         \o U16ToLE(Len(f.frames) % 65536) \o U16ToLE(FrmNumBones(f) % 65536)
         \o Flatten([k \in DOMAIN f.frames |-> FrameIntoBytes(f.frames[k])])
         \o Flatten([k \in DOMAIN f.frames |-> F32ToLE(f.frames[k].pos_z)])

\* The state of Frm::from_bytes at its start: Cursor::new(bytes).
FrmReaderStart ==
    [stage |-> "header", pos |-> 0, num_frames |-> 0, num_bones |-> 0, z |-> 0,
     frm |-> FrmNew("V1_0")]

(***************************************************************************)
(* FRM byte buffers the codec is run on                                    *)
(***************************************************************************)
\* Bounds: frames of a sample file, bones per frame.
MaxFrames == 2

MaxFrameBones == 1

\* Sample bone matrix of frame k: the identity with k in the last row.
SampleMatrix(k) ==
    LE_F1 \o LE_F0 \o LE_F0 \o LE_F0
    \o LE_F0 \o LE_F1 \o LE_F0 \o LE_F0
    \o LE_F0 \o LE_F0 \o LE_F1 \o LE_F0
    \o <<0, 0, k, 64>> \o LE_F0 \o LE_F0 \o LE_F1

\* Sample frame k: option byte k, pos_x 1.0, a pos_y that depends on k.
SampleFrame(k, nb) ==
    <<k>> \o LE_F1 \o <<0, 0, k, 65>> \o Flatten([x \in 1..nb |-> SampleMatrix(k)])

\* A complete FRM file in the layout of Frm::to_bytes / from_bytes.
SampleFrm(version, nf, nb) ==
    IF version = "V1_0"
    THEN <<nf, nb>> \o Flatten([k \in 1..nf |-> SampleFrame(k, nb)])
    ELSE FRM_VERSION_HEADER \o <<nf, 0>> \o <<nb, 0>>
         \o Flatten([k \in 1..nf |-> SampleFrame(k, nb)])
         \o Flatten([k \in 1..nf |-> <<0, k, 128, 63>>])

\* Lengths a sample file is cut or extended to: inside the header probe,
\* inside the counts, inside a frame, one byte short, whole, and followed
\* by one byte or by twelve bytes.
FrmCutLengths(full) ==
    {1, Len(FRM_VERSION_HEADER) - 1, Len(FRM_VERSION_HEADER), Len(FRM_VERSION_HEADER) + 3,
     Len(full) - 5, Len(full) - 1, Len(full), Len(full) + 1, Len(full) + Len(FRM_VERSION_HEADER)}

\* The first n bytes of the file; beyond its end the file is followed by
\* bytes of value 9.
FrmCutTo(full, n) == [k \in 1..n |-> IF k <= Len(full) THEN full[k] ELSE 9]

InitFrm ==
    /\ mode = "frm"
    /\ pc = "decode"
    /\ reader = FrmReaderStart
    /\ \E version \in {"V1_0", "V1_1"}, nf \in 0..MaxFrames, nb \in 0..MaxFrameBones,
          eof \in EofModes :
          LET full == SampleFrm(version, nf, nb)
          IN \E n \in FrmCutLengths(full) :
                /\ n >= 0
                /\ input = [bytes |-> FrmCutTo(full, n), eof |-> eof]
    /\ output = <<>> /\ output2 = <<>> /\ output3 = <<>>
    /\ files = <<>> /\ cursor = 0 /\ acc = None /\ importLog = <<>> /\ exported = <<>>

FrmDecoding == mode = "frm" /\ pc \in {"decode", "redecode"}

\* Lines 28-37 and 45-48: the header probe, then the two counts of the
\* detected sub-version.
FrmReadHeader ==
    /\ FrmDecoding /\ reader.stage = "header"
    /\ LET header == ReadExact(Source, 0, Len(FRM_VERSION_HEADER))
           v1_0 == header.val # FRM_VERSION_HEADER
           num_frames == IF v1_0 THEN ReadU8(Source, 0) ELSE ReadU16(Source, header.pos)
           num_bones == IF v1_0 THEN ReadU8(Source, 1) ELSE ReadU16(Source, header.pos + 2)
       IN IF header.ok /\ num_frames.ok /\ num_bones.ok
          THEN Continue([reader EXCEPT !.stage = "frames", !.pos = num_bones.pos,
                            !.num_frames = num_frames.val, !.num_bones = num_bones.val,
                            !.frm = FrmNew(IF v1_0 THEN "V1_0" ELSE "V1_1")])
          ELSE Return(Err) /\ UNCHANGED reader
    /\ UNCHANGED <<mode, convVars, input, output2>>

\* Lines 38-41 and 49-51: one iteration of the frame loop.
FrmReadFrame ==
    /\ FrmDecoding /\ reader.stage = "frames"
    /\ Len(reader.frm.frames) < reader.num_frames
    /\ LET r == FrameFromReader(Source, reader.pos, reader.num_bones)
       IN IF r.ok
          THEN Continue([reader EXCEPT !.pos = r.pos, !.frm.frames = Append(@, r.val)])
          ELSE Return(Err) /\ UNCHANGED reader
    /\ UNCHANGED <<mode, convVars, input, output2>>

\* Lines 52-54: one iteration of the pos_z loop of V1_1.
FrmReadPosZ ==
    /\ FrmDecoding /\ reader.stage = "frames"
    /\ reader.frm.version = "V1_1"
    /\ Len(reader.frm.frames) = reader.num_frames
    /\ reader.z < Len(reader.frm.frames)
    /\ LET r == ReadF32(Source, reader.pos)
       IN IF r.ok
          THEN Continue([reader EXCEPT !.pos = r.pos, !.z = @ + 1,
                            !.frm.frames[reader.z + 1].pos_z = r.val])
          ELSE Return(Err) /\ UNCHANGED reader
    /\ UNCHANGED <<mode, convVars, input, output2>>

\* Line 59: Ok(frm)
FrmReturnOk ==
    /\ FrmDecoding /\ reader.stage = "frames"
    /\ Len(reader.frm.frames) = reader.num_frames
    /\ reader.frm.version = "V1_1" => reader.z = Len(reader.frm.frames)
    /\ Return(Ok(reader.frm))
    /\ UNCHANGED <<mode, convVars, input, output2, reader>>

\* frm.to_bytes() on the decoded value; the bytes are then decoded again.
FrmEncode ==
    /\ mode = "frm" /\ pc = "decoded"
    /\ output2' = FrmToBytes(output.val)
    /\ reader' = FrmReaderStart
    /\ pc' = "redecode"
    /\ UNCHANGED <<mode, convVars, input, output, output3>>

NextFrm ==
    \/ FrmReadHeader
    \/ FrmReadFrame
    \/ FrmReadPosZ
    \/ FrmReturnOk
    \/ FrmEncode

SpecFrm == InitFrm /\ [][NextFrm]_vars

(***************************************************************************)
(* Claims about the FRM codec                                              *)
(***************************************************************************)
\* C8: for each sub-version, every Frm value f that Frm::from_bytes returns
\* for a buffer it accepts is reproduced by decoding its own encoding:
\* Frm::from_bytes(f.to_bytes()) succeeds and equals f (version, number of
\* frames including none, and every field of every frame).
C8_FrmRoundTrip ==
    (mode = "frm" /\ pc = "redecoded") => (output3.ok /\ output3.val = output.val)

(***************************************************************************)
(* FRM import: convert_frames (src/formats/frm/importer.rs).  Floats are   *)
(* integers here; the frames carry the field plus_x of the importer's      *)
(* Frame.                                                                  *)
(***************************************************************************)
\* Bound: frames of an animation handed to convert_frames.
MaxImportFrames == 3

Vec3A(x, y, z) == [x |-> x, y |-> y, z |-> z]

\* Mat4::from_cols_array_2d: the four inner arrays are the four columns.
Mat4FromColsArray2d(m) == [x_axis |-> m[1], y_axis |-> m[2], z_axis |-> m[3], w_axis |-> m[4]]

Keyframe(translation, transforms) == [translation |-> translation, transforms |-> transforms]

\* Sample bone matrices: sixteen distinct entries, and the constant matrix
\* of tests::frames.
MatrixA == <<<<1, 2, 3, 4>>, <<5, 6, 7, 8>>, <<9, 10, 11, 12>>, <<13, 14, 15, 16>>>>

MatrixB == <<<<2, 2, 2, 2>>, <<2, 2, 2, 2>>, <<2, 2, 2, 2>>, <<2, 2, 2, 2>>>>

\* Sample frames: X offsets of both signs, Y and Z values, one or two bones.
ImportFrames ==
    [option : {0}, plus_x : {-1, 1, 2}, pos_y : {1, 3}, pos_z : {0, 5},
     bones : {<<MatrixA, MatrixB>>, <<MatrixB>>}]

\* Mutant of ConvertFrame: Y is accumulated like X.
ConvertFrameAccumulateY(prev_root_trans, frame) ==
    Keyframe(Vec3A(prev_root_trans.x + frame.plus_x, prev_root_trans.y + frame.pos_y,
                   frame.pos_z),
             [k \in DOMAIN frame.bones |-> Mat4FromColsArray2d(frame.bones[k])])

\* Lines 41-46: the keyframe the closure builds for one frame.
ConvertFrame(prev_root_trans, frame) ==
    Keyframe(Vec3A(prev_root_trans.x + frame.plus_x, frame.pos_y, frame.pos_z),
             [k \in DOMAIN frame.bones |-> Mat4FromColsArray2d(frame.bones[k])])

\* Lines 35-36: the state of convert_frames before the first frame.
ConvertFramesStart ==
    [prev_root_trans |-> Vec3A(0, 0, 0), current_time |-> 0, keyframes |-> <<>>]

InitFrmImport ==
    /\ mode = "frm_import"
    /\ pc = "convert"
    /\ reader = ConvertFramesStart
    /\ input \in SeqsUpTo(ImportFrames, MaxImportFrames)
    /\ output = <<>> /\ output2 = <<>> /\ output3 = <<>>
    /\ files = <<>> /\ cursor = 0 /\ acc = None /\ importLog = <<>> /\ exported = <<>>

\* Lines 40-53: the closure of map runs on the next frame.  current_time
\* counts in units of 1/55 s.
ConvertFramesNext ==
    /\ mode = "frm_import" /\ pc = "convert"
    /\ Len(reader.keyframes) < Len(input)
    /\ LET frame == input[Len(reader.keyframes) + 1]
           keyframe == ConvertFrame(reader.prev_root_trans, frame)
       IN reader' = [prev_root_trans |-> keyframe.translation,
                     current_time |-> reader.current_time + 1,
                     keyframes |-> Append(reader.keyframes, keyframe)]
    /\ UNCHANGED <<mode, pc, convVars, input, output, output2, output3>>

\* Line 54: collect() returns the keyframes.
ConvertFramesCollect ==
    /\ mode = "frm_import" /\ pc = "convert"
    /\ Len(reader.keyframes) = Len(input)
    /\ output' = reader.keyframes
    /\ pc' = "converted"
    /\ UNCHANGED <<mode, convVars, input, output2, output3, reader>>

NextFrmImport ==
    \/ ConvertFramesNext
    \/ ConvertFramesCollect

SpecFrmImport == InitFrmImport /\ [][NextFrmImport]_vars

(***************************************************************************)
(* Claims about the FRM import                                             *)
(***************************************************************************)
RECURSIVE SumPlusX(_, _)
\* Sum of the X offsets of the first i frames.
SumPlusX(frames, i) == IF i = 0 THEN 0 ELSE SumPlusX(frames, i - 1) + frames[i].plus_x

MaxJoints == 4

\* MAX_NUM_BONES of the P3M internals: the number of joints the exporter
\* converts.  The conversion uses it only in take(MAX_NUM_BONES); it is kept
\* below MaxJoints here so that skeletons beyond the limit occur.
MAX_NUM_BONES == 3

\* u8::MAX
U8_MAX == 255

\* index as u8
AsU8(index) == index % 256

\* Vec3A -> [f32; 3] and back (the two into() conversions)
Vec3AToArray(v) == <<v.x, v.y, v.z>>

ArrayToVec3A(a) == Vec3A(a[1], a[2], a[3])

\* Joint::new
JointNew == Joint(Vec3A(0, 0, 0), None, <<>>)

\* Vec::remove(index) for an index inside the vector
Remove(v, index) == [k \in 1..(Len(v) - 1) |-> IF k <= index THEN v[k] ELSE v[k + 1]]

\* Exporter lines 59-69: the children below u8::MAX, as u8, in order.
RECURSIVE FilterMapChildren(_)
FilterMapChildren(children) ==
    IF children = <<>> THEN <<>>
    ELSE (IF Head(children) < U8_MAX THEN <<AsU8(Head(children))>> ELSE <<>>)
         \o FilterMapChildren(Tail(children))

\* Exporter lines 53-71: the two bones pushed for the joint at index
\* (the angle bone is otherwise AngleBone::default()).
JointPositionBone(joint, index) ==
    PositionBone(Vec3AToArray(joint.translation), <<AsU8(index)>>)

JointAngleBone(joint) == AngleBone(<<0, 0, 0>>, 0, FilterMapChildren(joint.children))

\* Exporter lines 85-91: child indices above the removed index move down.
ShiftChildren(angle_bones, index) ==
    [a \in DOMAIN angle_bones |->
        [angle_bones[a] EXCEPT !.children =
            [k \in DOMAIN @ |-> IF @[k] > AsU8(index) THEN @[k] - 1 ELSE @[k]]]]

\* Mutant of AggregateRoot: the first parentless joint is aggregated too.
AggregateRootAlways(st, joint, index) ==
    IF joint.parent # None
    THEN st
    ELSE IF st.position_bones = <<>> \/ index >= Len(st.position_bones)
    THEN [st EXCEPT !.panicked = TRUE]
    ELSE [st EXCEPT
            !.position_bones =
                Remove([@ EXCEPT ![1].children = Append(@, AsU8(index))], index),
            !.angle_bones = ShiftChildren(@, index),
            !.count = @ + 1]

\* Exporter lines 77-94: the body of the aggregation loop for one joint.
\* get_mut(0).unwrap() and remove(index) panic outside the vector.
AggregateRoot(st, joint, index) ==
    IF joint.parent # None
    THEN st
    ELSE IF st.count = 0
    THEN [st EXCEPT !.count = @ + 1]
    ELSE IF st.position_bones = <<>> \/ index >= Len(st.position_bones)
    THEN [st EXCEPT !.panicked = TRUE]
    ELSE [st EXCEPT
            !.position_bones =
                Remove([@ EXCEPT ![1].children = Append(@, AsU8(index))], index),
            !.angle_bones = ShiftChildren(@, index),
            !.count = @ + 1]

(***************************************************************************)
(* Skeletons the bone conversion is run on                                 *)
(***************************************************************************)
RECURSIVE Ascending(_)
\* The elements of a finite set of numbers in ascending order.
Ascending(S) ==
    IF S = {} THEN <<>>
    ELSE LET m == CHOOSE x \in S : \A y \in S : x <= y
         IN <<m>> \o Ascending(S \ {m})

\* The 0-based indices of the joints whose parent is the joint at index p.
ChildrenOf(par, p) == {c - 1 : c \in {x \in DOMAIN par : par[x] = Some(p)}}

\* How the children lists of a sample skeleton relate to its parent links:
\* the children in ascending or descending order, no children at all, or
\* the children followed by the index 255 that refers to no joint.
ChildrenVariants == {"asc", "desc", "none", "dangling"}

SampleChildren(par, p, variant) ==
    CASE variant = "asc" -> Ascending(ChildrenOf(par, p))
      [] variant = "desc" -> Reverse(Ascending(ChildrenOf(par, p)))
      [] variant = "none" -> <<>>
      [] variant = "dangling" -> Ascending(ChildrenOf(par, p)) \o <<U8_MAX>>

\* A skeleton with the parent links par; joint i has its own translation.
SampleSkeleton(par, variant) ==
    [i \in DOMAIN par |->
        Joint(Vec3A(i, 2 * i, 0 - i), par[i], SampleChildren(par, i - 1, variant))]

\* Every assignment of parents (any number of roots, cycles included).
SampleSkeletons ==
    {SampleSkeleton(par, variant) :
        par \in UNION {[1..n -> {None} \cup {Some(k) : k \in 0..(n - 1)}] : n \in 0..MaxJoints},
        variant \in ChildrenVariants}

\* Exporter lines 49-50 and 75: the state of convert_joints at its start.
ExportStart ==
    [position_bones |-> <<>>, angle_bones |-> <<>>, index |-> 0, count |-> 0,
     panicked |-> FALSE]

\* Importer lines 23 and 44: the joints and the parent table, one entry per
\* angle bone; p, j and k count the iterations of the three loops.
ImportStart(angle_bones) ==
    [joints |-> [a \in DOMAIN angle_bones |-> JointNew],
     joint_parents |-> [a \in DOMAIN angle_bones |-> None],
     p |-> 0, j |-> 0, k |-> 0]

InitJoints ==
    /\ mode = "joints"
    /\ pc = "export"
    /\ reader = ExportStart
    /\ input \in SampleSkeletons
    /\ output = <<>> /\ output2 = <<>> /\ output3 = <<>>
    /\ files = <<>> /\ cursor = 0 /\ acc = None /\ importLog = <<>> /\ exported = <<>>

\* joints.iter().take(MAX_NUM_BONES): the number of joints converted
Taken == Min(Len(input), MAX_NUM_BONES)

\* Exporter lines 52-72: one iteration of the first loop.
ExportPushBones ==
    /\ mode = "joints" /\ pc = "export"
    /\ Len(reader.angle_bones) < Taken
    /\ LET index == Len(reader.angle_bones)
           joint == input[index + 1]
       IN reader' = [reader EXCEPT
                        !.position_bones = Append(@, JointPositionBone(joint, index)),
                        !.angle_bones = Append(@, JointAngleBone(joint))]
    /\ UNCHANGED <<mode, pc, convVars, input, output, output2, output3>>

\* Exporter lines 76-95: one iteration of the aggregation loop.
ExportAggregateRoot ==
    /\ mode = "joints" /\ pc = "export"
    /\ Len(reader.angle_bones) = Taken
    /\ reader.index < Taken
    /\ LET st == AggregateRoot(reader, input[reader.index + 1], reader.index)
       IN IF st.panicked
          THEN pc' = "panicked" /\ output' = Err /\ UNCHANGED reader
          ELSE reader' = [st EXCEPT !.index = @ + 1] /\ UNCHANGED <<pc, output>>
    /\ UNCHANGED <<mode, convVars, input, output2, output3>>

\* Exporter line 97: the two bone lists are returned and handed to the
\* importer's convert_joints.
ExportReturn ==
    /\ mode = "joints" /\ pc = "export"
    /\ Len(reader.angle_bones) = Taken
    /\ reader.index = Taken
    /\ output' = Ok([position_bones |-> reader.position_bones,
                     angle_bones |-> reader.angle_bones])
    /\ reader' = ImportStart(reader.angle_bones)
    /\ pc' = "import"
    /\ UNCHANGED <<mode, convVars, input, output2, output3>>

\* The bone lists the importer's convert_joints was called with.
Bones == output.val

\* An indexing outside a vector panics and ends the import.
ImportPanics ==
    /\ pc' = "panicked"
    /\ output2' = Err
    /\ UNCHANGED reader

\* Mutant of ImportTranslation: the loop applies no translation.
ImportTranslationSkips ==
    /\ mode = "joints" /\ pc = "import"
    /\ reader.p < Len(Bones.position_bones)
    /\ reader' = [reader EXCEPT !.p = @ + 1]
    /\ UNCHANGED <<mode, pc, convVars, input, output, output2, output3>>

\* Importer lines 26-30: one iteration of the translation loop.
ImportTranslation ==
    /\ mode = "joints" /\ pc = "import"
    /\ reader.p < Len(Bones.position_bones)
    /\ LET p_bone == Bones.position_bones[reader.p + 1]
       IN IF \E child \in Range(p_bone.children) : child >= Len(reader.joints)
          THEN ImportPanics
          ELSE /\ reader' = [reader EXCEPT
                    !.p = @ + 1,
                    !.joints = [c \in DOMAIN @ |->
                        IF c - 1 \in Range(p_bone.children)
                        THEN [@[c] EXCEPT !.translation = ArrayToVec3A(p_bone.position)]
                        ELSE @[c]]]
               /\ UNCHANGED <<pc, output2>>
    /\ UNCHANGED <<mode, convVars, input, output, output3>>

\* Importer lines 33-41: one iteration of the children loop: the children
\* of the position bones the angle bone lists, in order.
ImportChildren ==
    /\ mode = "joints" /\ pc = "import"
    /\ reader.p = Len(Bones.position_bones)
    /\ reader.j < Len(reader.joints)
    /\ LET a_bone == Bones.angle_bones[reader.j + 1]
       IN IF \E x \in Range(a_bone.children) : x >= Len(Bones.position_bones)
          THEN ImportPanics
          ELSE /\ reader' = [reader EXCEPT
                    !.j = @ + 1,
                    !.joints[reader.j + 1].children =
                        @ \o Flatten([n \in DOMAIN a_bone.children |->
                                Bones.position_bones[a_bone.children[n] + 1].children])]
               /\ UNCHANGED <<pc, output2>>
    /\ UNCHANGED <<mode, convVars, input, output, output3>>

\* Mutant of SetParents: a joint that has a parent keeps it.
SetParentsFirstWins(joint_parents, index, children) ==
    [c \in DOMAIN joint_parents |->
        IF c - 1 \in Range(children) /\ joint_parents[c] = None
        THEN Some(index) ELSE joint_parents[c]]

\* Importer lines 46-48: every child of the joint at index gets it as parent.
SetParents(joint_parents, index, children) ==
    [c \in DOMAIN joint_parents |->
        IF c - 1 \in Range(children) THEN Some(index) ELSE joint_parents[c]]

\* Importer lines 45-49: one iteration of the parent loop.
ImportParents ==
    /\ mode = "joints" /\ pc = "import"
    /\ reader.p = Len(Bones.position_bones)
    /\ reader.j = Len(reader.joints)
    /\ reader.k < Len(reader.joints)
    /\ LET children == reader.joints[reader.k + 1].children
       IN IF \E child \in Range(children) : child >= Len(reader.joint_parents)
          THEN ImportPanics
          ELSE /\ reader' = [reader EXCEPT
                    !.k = @ + 1,
                    !.joint_parents = SetParents(@, reader.k, children)]
               /\ UNCHANGED <<pc, output2>>
    /\ UNCHANGED <<mode, convVars, input, output, output3>>

\* Importer lines 50-54: the parents are stored and the joints returned.
ImportReturn ==
    /\ mode = "joints" /\ pc = "import"
    /\ reader.p = Len(Bones.position_bones)
    /\ reader.j = Len(reader.joints)
    /\ reader.k = Len(reader.joints)
    /\ output2' = Ok([c \in DOMAIN reader.joints |->
                        [reader.joints[c] EXCEPT !.parent = reader.joint_parents[c]]])
    /\ pc' = "imported"
    /\ UNCHANGED <<mode, convVars, input, output, output3, reader>>

NextJoints ==
    \/ ExportPushBones
    \/ ExportAggregateRoot
    \/ ExportReturn
    \/ ImportTranslation
    \/ ImportChildren
    \/ ImportParents
    \/ ImportReturn

SpecJoints == InitJoints /\ [][NextJoints]_vars

(***************************************************************************)
(* Claims about the bone hierarchy conversion                              *)
(***************************************************************************)
\* The 0-based indices of the joints without a parent.
Roots(joints) == {i - 1 : i \in {x \in DOMAIN joints : joints[x].parent = None}}

\* Parent and children fields say the same: c is listed by p exactly when
\* the parent of c is p, and every listed child is a joint.
Consistent(joints) ==
    /\ \A p \in DOMAIN joints : \A c \in Range(joints[p].children) : c < Len(joints)
    /\ \A p, c \in DOMAIN joints :
          (c - 1 \in Range(joints[p].children)) <=> (joints[c].parent = Some(p - 1))

\* The skeletons the claim is about.
SingleRooted(joints) ==
    /\ Cardinality(Roots(joints)) <= 1
    /\ Len(joints) <= MAX_NUM_BONES
    /\ \A p \in DOMAIN joints : \A c \in Range(joints[p].children) : c < U8_MAX
    /\ Consistent(joints)

\* C10: for a skeleton with at most one root, at most MAX_NUM_BONES joints,
\* child indices below 255 and consistent parent and children fields, the
\* export bone conversion followed by the import bone resolver completes
\* and returns joints with the same parent and the same children list.
C10_HierarchyRoundTrip ==
    (mode = "joints" /\ pc \in {"imported", "panicked"} /\ SingleRooted(input)) =>
        /\ pc = "imported"
        /\ output2.ok
        /\ Len(output2.val) = Len(input)
        /\ \A i \in DOMAIN input :
              /\ output2.val[i].parent = input[i].parent
              /\ output2.val[i].children = input[i].children

\* A root with two children listed in descending order, one of them with a
\* child of its own, has gone through export and import.
C10_Witness ==
    /\ mode = "joints" /\ pc = "imported"
    /\ SingleRooted(input)
    /\ Len(input) = 3
    /\ input[1].parent = None
    /\ input[1].children = <<2, 1>>
    /\ output2.val[1].children = <<2, 1>>
    /\ output2.val[2].parent = Some(0)
    /\ output2.val[3].parent = Some(0)

(***************************************************************************)
(* P3M skinning: convert_mesh / convert_vertices of the importer           *)
(* (src/format/grandchase/p3m/importer.rs), convert_vertices of the        *)
(* exporter (src/formats/p3m/exporter.rs) and joint_world_translation      *)
(* (src/conversion/scene.rs).  Floats are integers here.  A call ends in   *)
(* a value, in a panic (an index outside a vector, an arithmetic overflow) *)
(* or never (a loop that does not terminate).                              *)
(***************************************************************************)
Done(v) == [kind |-> "ok", val |-> v]

Panic == [kind |-> "panic"]

Diverge == [kind |-> "diverge"]

\* Vec3A + Vec3A and Vec3A - Vec3A
Vec3AAdd(a, b) == Vec3A(a.x + b.x, a.y + b.y, a.z + b.z)

Vec3ASub(a, b) == Vec3A(a.x - b.x, a.y - b.y, a.z - b.z)

Vec2(x, y) == [x |-> x, y |-> y]

\* [f32; 2] -> Vec2 and back (the into() conversions of uv)
ArrayToVec2(a) == Vec2(a[1], a[2])

Vec2ToArray(v) == <<v.x, v.y>>

Vertex(position, normal, uv, joint) ==
    [position |-> position, normal |-> normal, uv |-> uv, joint |-> joint]

Mesh(name, vertices, indices) == [name |-> name, vertices |-> vertices, indices |-> indices]

RECURSIVE WalkToRoot(_, _, _, _)
\* scene.rs lines 20-23: the while-let loop from the joint at index, with
\* the translation summed so far.  The loop has run `steps` times; once it
\* has run more often than there are joints it is on a cycle of parent
\* links and never ends.  skeleton[parent] panics outside the skeleton.
WalkToRoot(skeleton, index, translation, steps) ==
    LET joint == skeleton[index + 1]
    IN IF joint.parent = None THEN Done(translation)
       ELSE IF joint.parent[1] >= Len(skeleton) THEN Panic
       ELSE IF steps > Len(skeleton) THEN Diverge
       ELSE WalkToRoot(skeleton, joint.parent[1],
                       Vec3AAdd(translation, skeleton[joint.parent[1] + 1].translation),
                       steps + 1)

\* Mutant of JointWorldTranslation: the joint's own translation is returned.
JointWorldTranslationOwn(skeleton, index) ==
    IF index >= Len(skeleton) THEN Panic
    ELSE Done(skeleton[index + 1].translation)

\* Scene::joint_world_translation (scene.rs lines 17-26)
JointWorldTranslation(skeleton, index) ==
    IF index >= Len(skeleton) THEN Panic
    ELSE WalkToRoot(skeleton, index, skeleton[index + 1].translation, 0)

\* Mutant of ImportVertex: the world translation is subtracted.
ImportVertexSubtracts(vertex, num_position_bones, skeleton) ==
    IF vertex.bone_index < num_position_bones THEN Panic
    ELSE LET joint == vertex.bone_index - num_position_bones
             world == JointWorldTranslation(skeleton, joint)
         IN IF world.kind # "ok" THEN world
            ELSE Done(Vertex(Vec3ASub(ArrayToVec3A(vertex.position), world.val),
                             ArrayToVec3A(vertex.normal), ArrayToVec2(vertex.uv),
                             IF joint # 255 THEN Some(joint) ELSE None))

\* Mutant of ImportVertex: the bone index is taken as the joint index.
ImportVertexNoRebase(vertex, num_position_bones, skeleton) ==
    LET joint == vertex.bone_index
        world == JointWorldTranslation(skeleton, joint)
    IN IF world.kind # "ok" THEN world
       ELSE Done(Vertex(Vec3AAdd(ArrayToVec3A(vertex.position), world.val),
                        ArrayToVec3A(vertex.normal), ArrayToVec2(vertex.uv),
                        IF joint # 255 THEN Some(joint) ELSE None))

\* Importer lines 76-84: the closure of convert_vertices for one skin
\* vertex.  A bone index below the number of position bones makes the
\* usize subtraction overflow: a panic in a debug build, a wrapped index
\* far beyond the skeleton in a release build, which panics in
\* joint_world_translation; both builds panic.
ImportVertex(vertex, num_position_bones, skeleton) ==
    IF vertex.bone_index < num_position_bones THEN Panic
    ELSE LET joint == vertex.bone_index - num_position_bones
             world == JointWorldTranslation(skeleton, joint)
         IN IF world.kind # "ok" THEN world
            ELSE Done(Vertex(Vec3AAdd(ArrayToVec3A(vertex.position), world.val),
                             ArrayToVec3A(vertex.normal), ArrayToVec2(vertex.uv),
                             IF joint # 255 THEN Some(joint) ELSE None))

\* Importer lines 61-65: the faces flattened, index as usize.
FlattenFaces(faces) == Flatten(faces)

\* Exporter lines 109-129: the skin vertex and the mesh vertex pushed for
\* one scene vertex (weight is the 1. of SkinVertex::default()).
ExportVertex(vertex, num_position_bones, skeleton) ==
    LET joint_translation ==
            IF vertex.joint # None THEN JointWorldTranslation(skeleton, vertex.joint[1])
            ELSE Done(Vec3A(0, 0, 0))
    IN IF joint_translation.kind # "ok" THEN joint_translation
       ELSE Done([skin |-> SkinVertex(
                              Vec3AToArray(Vec3ASub(vertex.position, joint_translation.val)),
                              1,
                              IF vertex.joint # None
                              THEN AsU8(vertex.joint[1] + num_position_bones)
                              ELSE INVALID_BONE_INDEX,
                              Vec3AToArray(vertex.normal), Vec2ToArray(vertex.uv)),
                  mesh |-> MeshVertex(Vec3AToArray(vertex.position),
                                      Vec3AToArray(vertex.normal), Vec2ToArray(vertex.uv))])

(***************************************************************************)
(* Scenes and vertices the skinning conversion is run on                   *)
(***************************************************************************)
\* Bounds: vertices of a sample mesh, position bones of a sample file.
MaxSkinVertices == 2

MaxPositionBones == 2

\* Sample skeletons: none; a chain 0 <- 1 <- 2; two joints that are each
\* other's parent; a joint whose parent index refers to no joint.
SkeletonChain ==
    <<Joint(Vec3A(1, 1, 1), None, <<1>>),
      Joint(Vec3A(2, 0, 0), Some(0), <<2>>),
      Joint(Vec3A(0, 3, 0), Some(1), <<>>)>>

SkeletonCycle ==
    <<Joint(Vec3A(1, 0, 0), Some(1), <<1>>), Joint(Vec3A(0, 1, 0), Some(0), <<0>>)>>

SkeletonDangling == <<Joint(Vec3A(1, 0, 0), Some(5), <<>>)>>

SkinSkeletons == {<<>>, SkeletonChain, SkeletonCycle, SkeletonDangling}

\* Sample position, normal and uv of a vertex, as stored arrays.
VertexBodies ==
    {[position |-> <<1, 0, 0>>, normal |-> <<0, 1, 0>>, uv |-> <<0, 1>>],
     [position |-> <<4, 5, 7>>, normal |-> <<0, 0, 1>>, uv |-> <<2, 3>>]}

\* Bone indices of sample skin vertices: small ones and the sentinel.
SampleBoneIndices == {0, 1, 2, 3, INVALID_BONE_INDEX}

SampleSkinVertexValues ==
    {SkinVertex(b.position, 1, i, b.normal, b.uv) : b \in VertexBodies, i \in SampleBoneIndices}

\* Joints of sample scene vertices: none, joints of the chain, no joint of it.
SampleVertexValues ==
    {Vertex(ArrayToVec3A(b.position), ArrayToVec3A(b.normal), ArrayToVec2(b.uv), j) :
        b \in VertexBodies, j \in {None, Some(0), Some(2), Some(3)}}

SampleFaceLists == {<<>>, <<<<0, 1, 2>>, <<2, 1, 3>>>>}

\* The conversion that runs first; the other one runs on its result.
SkinInputs ==
    [first : {"import"}, skeleton : SkinSkeletons, num_position_bones : 0..MaxPositionBones,
     skin_vertices : SeqsUpTo(SampleSkinVertexValues, MaxSkinVertices),
     faces : SampleFaceLists, vertices : {<<>>}]
    \cup
    [first : {"export"}, skeleton : SkinSkeletons, num_position_bones : 0..MaxPositionBones,
     skin_vertices : {<<>>}, faces : {<<>>},
     vertices : SeqsUpTo(SampleVertexValues, MaxSkinVertices)]

\* The vectors a conversion builds, before its first vertex.
SkinStart == [vertices |-> <<>>, skin_vertices |-> <<>>, mesh_vertices |-> <<>>]

InitSkin ==
    /\ mode = "skin"
    /\ input \in SkinInputs
    /\ pc = input.first
    /\ reader = SkinStart
    /\ output = <<>> /\ output2 = <<>> /\ output3 = <<>>
    /\ files = <<>> /\ cursor = 0 /\ acc = None /\ importLog = <<>> /\ exported = <<>>

\* The skin vertices convert_mesh reads and the scene vertices the
\* exporter reads: the input, or the result of the other conversion.
ImportSource == IF input.first = "import" THEN input.skin_vertices ELSE output2.val.skin_vertices

ExportSource == IF input.first = "export" THEN input.vertices ELSE output.val.vertices

\* How a call that does not return a value ends.
Ended(r) == IF r.kind = "panic" THEN "panicked" ELSE "diverged"

\* Importer lines 74-85: the closure of map runs on the next skin vertex.
ConvertMeshNext ==
    /\ mode = "skin" /\ pc = "import"
    /\ Len(reader.vertices) < Len(ImportSource)
    /\ LET r == ImportVertex(ImportSource[Len(reader.vertices) + 1],
                             input.num_position_bones, input.skeleton)
       IN IF r.kind = "ok"
          THEN reader' = [reader EXCEPT !.vertices = Append(@, r.val)]
               /\ UNCHANGED <<pc, output>>
          ELSE pc' = Ended(r) /\ output' = Err /\ UNCHANGED reader
    /\ UNCHANGED <<mode, convVars, input, output2, output3>>

\* Importer lines 58-66: convert_mesh returns the mesh.
ConvertMeshReturn ==
    /\ mode = "skin" /\ pc = "import"
    /\ Len(reader.vertices) = Len(ImportSource)
    /\ output' = Ok(Mesh("model", reader.vertices, FlattenFaces(input.faces)))
    /\ pc' = IF input.first = "import" THEN "export" ELSE "done"
    /\ reader' = SkinStart
    /\ UNCHANGED <<mode, convVars, input, output2, output3>>

\* Exporter lines 108-130: one iteration of the loop of convert_vertices.
ConvertVerticesNext ==
    /\ mode = "skin" /\ pc = "export"
    /\ Len(reader.skin_vertices) < Len(ExportSource)
    /\ LET r == ExportVertex(ExportSource[Len(reader.skin_vertices) + 1],
                             input.num_position_bones, input.skeleton)
       IN IF r.kind = "ok"
          THEN reader' = [reader EXCEPT !.skin_vertices = Append(@, r.val.skin),
                                        !.mesh_vertices = Append(@, r.val.mesh)]
               /\ UNCHANGED <<pc, output2>>
          ELSE pc' = Ended(r) /\ output2' = Err /\ UNCHANGED reader
    /\ UNCHANGED <<mode, convVars, input, output, output3>>

\* Exporter line 132: convert_vertices returns the two vertex lists.
ConvertVerticesReturn ==
    /\ mode = "skin" /\ pc = "export"
    /\ Len(reader.skin_vertices) = Len(ExportSource)
    /\ output2' = Ok([skin_vertices |-> reader.skin_vertices,
                      mesh_vertices |-> reader.mesh_vertices])
    /\ pc' = IF input.first = "export" THEN "import" ELSE "done"
    /\ reader' = SkinStart
    /\ UNCHANGED <<mode, convVars, input, output, output3>>

NextSkin ==
    \/ ConvertMeshNext
    \/ ConvertMeshReturn
    \/ ConvertVerticesNext
    \/ ConvertVerticesReturn

SpecSkin == InitSkin /\ [][NextSkin]_vars

(***************************************************************************)
(* Claims about the P3M skinning conversion                                *)
(***************************************************************************)
\* convert_mesh has returned a mesh.
Imported == mode = "skin" /\ output # <<>> /\ output.ok

\* The exporter's convert_vertices has returned its vertex lists.
Exported == mode = "skin" /\ output2 # <<>> /\ output2.ok

\* The world translation of joint j of the scene of this run.
World(j) == JointWorldTranslation(input.skeleton, j).val

\* C11 as stated: for every vertex with an assigned joint j, the joint's
\* world translation plus the scene position equals the position stored in
\* the skin vertex (import subtracts the world translation, export adds it).
C11_Original ==
    /\ Imported =>
          \A i \in DOMAIN output.val.vertices :
             LET v == output.val.vertices[i]
             IN v.joint # None =>
                   Vec3AAdd(World(v.joint[1]), v.position)
                       = ArrayToVec3A(ImportSource[i].position)
    /\ Exported =>
          \A i \in DOMAIN output2.val.skin_vertices :
             LET v == ExportSource[i]
             IN v.joint # None =>
                   Vec3AAdd(World(v.joint[1]), v.position)
                       = ArrayToVec3A(output2.val.skin_vertices[i].position)

\* C11 amended: for every vertex with an assigned joint j, import computes
\* the scene position as the stored position plus the joint's world
\* translation, and export computes the stored position as the scene
\* position minus the joint's world translation.
C11_ImportAddsExportSubtracts ==
    /\ Imported =>
          \A i \in DOMAIN output.val.vertices :
             LET v == output.val.vertices[i]
             IN v.joint # None =>
                   v.position
                       = Vec3AAdd(ArrayToVec3A(ImportSource[i].position), World(v.joint[1]))
    /\ Exported =>
          \A i \in DOMAIN output2.val.skin_vertices :
             LET v == ExportSource[i]
             IN v.joint # None =>
                   ArrayToVec3A(output2.val.skin_vertices[i].position)
                       = Vec3ASub(v.position, World(v.joint[1]))

\* A vertex stored at (1, 0, 0) on the last joint of the chain (world
\* translation (3, 4, 1)) is imported to (4, 4, 1) and exported back.
C11_Witness ==
    /\ mode = "skin" /\ pc = "done" /\ input.first = "import"
    /\ input.skeleton = SkeletonChain
    /\ input.num_position_bones = 1
    /\ Len(input.skin_vertices) = 1
    /\ input.skin_vertices[1].bone_index = 3
    /\ input.skin_vertices[1].position = <<1, 0, 0>>
    /\ output.val.vertices[1].position = Vec3A(4, 4, 1)
    /\ output.val.vertices[1].joint = Some(2)
    /\ output2.val.skin_vertices[1].position = <<1, 0, 0>>

\* C12: convert_mesh maps the skin vertices one to one and in order: the
\* position is the stored position plus the world translation of the joint,
\* the joint index is the bone index minus the number of position bones,
\* normal and uv are copied, and the indices are the faces flattened in
\* order, three per face.
C12_MeshMapping ==
    (Imported /\ input.first = "import") =>
        /\ Len(output.val.vertices) = Len(input.skin_vertices)
        /\ \A i \in DOMAIN input.skin_vertices :
              LET s == input.skin_vertices[i]
                  v == output.val.vertices[i]
                  joint == s.bone_index - input.num_position_bones
              IN /\ joint # 255 => v.joint = Some(joint)
                 /\ v.position = Vec3AAdd(ArrayToVec3A(s.position), World(joint))
                 /\ v.normal = ArrayToVec3A(s.normal)
                 /\ v.uv = ArrayToVec2(s.uv)
        /\ Len(output.val.indices) = 3 * Len(input.faces)
        /\ \A f \in DOMAIN input.faces : \A k \in 1..3 :
              output.val.indices[3 * (f - 1) + k] = input.faces[f][k]

\* Two skin vertices of a file with one position bone, on joints 0 and 2
\* of the chain, and two faces have been imported.
C12_Witness ==
    /\ Imported /\ input.first = "import"
    /\ input.skeleton = SkeletonChain
    /\ input.num_position_bones = 1
    /\ Len(input.skin_vertices) = 2
    /\ input.skin_vertices[1].bone_index = 1
    /\ input.skin_vertices[2].bone_index = 3
    /\ input.skin_vertices[1].position # input.skin_vertices[2].position
    /\ output.val.vertices[2].joint = Some(2)
    /\ output.val.indices = <<0, 1, 2, 2, 1, 3>>

\* C13: a skin vertex whose bone index is the sentinel 255 is imported,
\* without failing and for any number of position bones, to a vertex with
\* no joint; so a vertex without joint that was exported (bone index 255)
\* is a vertex without joint again after the import.
C13_SentinelIsNoJoint ==
    (/\ mode = "skin" /\ output # <<>>
     /\ input.skeleton = SkeletonChain
     /\ \A i \in DOMAIN ImportSource : ImportSource[i].bone_index = INVALID_BONE_INDEX) =>
        /\ output.ok
        /\ \A i \in DOMAIN output.val.vertices : output.val.vertices[i].joint = None

(***************************************************************************)
(* Coordinate transform: transform (src/formats/gltf/mod.rs, and the same  *)
(* function in src/format/gltf/exporter.rs).  Floats are integers; a Mat4  *)
(* is its four columns.                                                    *)
(***************************************************************************)
Mat4(x_axis, y_axis, z_axis, w_axis) ==
    [x_axis |-> x_axis, y_axis |-> y_axis, z_axis |-> z_axis, w_axis |-> w_axis]

\* Mat4::IDENTITY
MAT4_IDENTITY == Mat4(<<1, 0, 0, 0>>, <<0, 1, 0, 0>>, <<0, 0, 1, 0>>, <<0, 0, 0, 1>>)

\* Lines 13-14: the identity with z_axis = (0, 0, -1, 0)
FlipMatrix == [MAT4_IDENTITY EXCEPT !.z_axis = <<0, 0, -1, 0>>]

\* matrix.inverse() of line 35: the inverse of FlipMatrix is FlipMatrix.
FlipMatrixInverse == FlipMatrix

\* Mat4 * Vec4: the columns weighted by the components of v
MulVec4(m, v) ==
    [k \in 1..4 |-> m.x_axis[k] * v[1] + m.y_axis[k] * v[2] + m.z_axis[k] * v[3]
                    + m.w_axis[k] * v[4]]

\* Mat4::mul_mat4
MulMat4(a, b) ==
    Mat4(MulVec4(a, b.x_axis), MulVec4(a, b.y_axis), MulVec4(a, b.z_axis), MulVec4(a, b.w_axis))

\* Mat4::transform_point3a: the point with w = 1, the result without w
TransformPoint3A(m, p) ==
    LET r == MulVec4(m, <<p.x, p.y, p.z, 1>>)
    IN Vec3A(r[1], r[2], r[3])

\* Mutant of SwapFaces: the first and the second index of a face are swapped.
SwapFacesFirstSecond(indices) ==
    [k \in DOMAIN indices |->
        IF k > 3 * (Len(indices) \div 3) THEN indices[k]
        ELSE IF k % 3 = 1 THEN indices[k + 1]
        ELSE IF k % 3 = 2 THEN indices[k - 1]
        ELSE indices[k]]

\* Lines 22-24: for i in 0..len / 3, swap(i * 3 + 1, i * 3 + 2)
SwapFaces(indices) ==
    [k \in DOMAIN indices |->
        IF k > 3 * (Len(indices) \div 3) THEN indices[k]
        ELSE IF k % 3 = 2 THEN indices[k + 1]
        ELSE IF k % 3 = 0 THEN indices[k - 1]
        ELSE indices[k]]

\* Lines 16-25: one mesh
TransformMesh(mesh) ==
    [mesh EXCEPT
        !.vertices = [k \in DOMAIN @ |->
            [@[k] EXCEPT !.position = TransformPoint3A(FlipMatrix, @),
                         !.normal = TransformPoint3A(FlipMatrix, @)]],
        !.indices = SwapFaces(@)]

\* Lines 32-37: one keyframe
TransformKeyframe(frame) ==
    [frame EXCEPT
        !.translation.z = @ * (0 - 1),
        !.transforms = [k \in DOMAIN @ |->
            MulMat4(MulMat4(FlipMatrix, @[k]), FlipMatrixInverse)]]

\* transform (lines 10-41)
Transform(scene) ==
    [meshes |-> [m \in DOMAIN scene.meshes |-> TransformMesh(scene.meshes[m])],
     skeleton |-> [j \in DOMAIN scene.skeleton |->
        [scene.skeleton[j] EXCEPT !.translation = TransformPoint3A(FlipMatrix, @)]],
     animations |-> [a \in DOMAIN scene.animations |->
        [scene.animations[a] EXCEPT !.frames =
            [f \in DOMAIN @ |-> TransformKeyframe(@[f])]]]]

(***************************************************************************)
(* Scenes the coordinate transform is run on                               *)
(***************************************************************************)
\* Bounds: vertices of the sample mesh, length of its index list.
MaxTransformVertices == 2

MaxIndices == 7

Animation(name, frames) == [name |-> name, frames |-> frames]

\* Sample vertices: Z of both signs and zero, with and without joint.
TransformVertices ==
    {Vertex(Vec3A(1, 2, z), Vec3A(0, 1, 0 - z), Vec2(5, 6), j) :
        z \in {-3, 0, 2}, j \in {None, Some(1)}}

\* The first n elements of a list of distinct vertex indices: complete
\* faces followed by zero, one or two trailing indices.
TransformIndices(n) == SubSeq(<<0, 1, 2, 3, 4, 5, 6, 7, 8, 9>>, 1, n)

\* A second, fixed mesh of one face.
SecondMesh ==
    Mesh("second", <<Vertex(Vec3A(0, 0, 9), Vec3A(1, 0, 0), Vec2(0, 0), None)>>, <<2, 1, 0>>)

\* Sample animations: none, or one of two keyframes with one matrix each.
TransformAnimations ==
    {<<>>,
     <<Animation("walk",
          <<Keyframe(Vec3A(1, 2, 5), <<Mat4FromColsArray2d(MatrixA)>>),
            Keyframe(Vec3A(2, 2, -1), <<Mat4FromColsArray2d(MatrixB)>>)>>)>>}

TransformScenes ==
    {[meshes |-> ms, skeleton |-> sk, animations |-> an] :
        ms \in {<<>>} \cup
               {<<Mesh("first", vs, TransformIndices(n))>> \o tail :
                   vs \in SeqsUpTo(TransformVertices, MaxTransformVertices),
                   n \in 0..MaxIndices,
                   tail \in {<<>>, <<SecondMesh>>}},
        sk \in {<<>>, SkeletonChain},
        an \in TransformAnimations}

InitTransform ==
    /\ mode = "transform"
    /\ pc = "scene"
    /\ input \in TransformScenes
    /\ output = <<>> /\ output2 = <<>> /\ output3 = <<>>
    /\ reader = <<>>
    /\ files = <<>> /\ cursor = 0 /\ acc = None /\ importLog = <<>> /\ exported = <<>>

\* transform(&scene)
TransformOnce ==
    /\ mode = "transform" /\ pc = "scene"
    /\ output' = Transform(input)
    /\ pc' = "once"
    /\ UNCHANGED <<mode, convVars, input, output2, output3, reader>>

\* transform on the transformed scene
TransformTwice ==
    /\ mode = "transform" /\ pc = "once"
    /\ output2' = Transform(output)
    /\ pc' = "twice"
    /\ UNCHANGED <<mode, convVars, input, output, output3, reader>>

NextTransform ==
    \/ TransformOnce
    \/ TransformTwice

SpecTransform == InitTransform /\ [][NextTransform]_vars

(***************************************************************************)
(* Claims about the coordinate transform                                   *)
(***************************************************************************)
\* Only the Z component of b is the negation of a's.
ZNegated(a, b) == b.x = a.x /\ b.y = a.y /\ b.z = 0 - a.z

\* The scenes a and b agree on everything the claim says two applications
\* give back: positions, normals, index lists, joint translations and
\* keyframe root translations.
SameGeometry(a, b) ==
    /\ Len(a.meshes) = Len(b.meshes)
    /\ \A m \in DOMAIN a.meshes :
          /\ Len(a.meshes[m].vertices) = Len(b.meshes[m].vertices)
          /\ \A k \in DOMAIN a.meshes[m].vertices :
                /\ a.meshes[m].vertices[k].position = b.meshes[m].vertices[k].position
                /\ a.meshes[m].vertices[k].normal = b.meshes[m].vertices[k].normal
          /\ a.meshes[m].indices = b.meshes[m].indices
    /\ Len(a.skeleton) = Len(b.skeleton)
    /\ \A j \in DOMAIN a.skeleton : a.skeleton[j].translation = b.skeleton[j].translation
    /\ Len(a.animations) = Len(b.animations)
    /\ \A n \in DOMAIN a.animations :
          /\ Len(a.animations[n].frames) = Len(b.animations[n].frames)
          /\ \A f \in DOMAIN a.animations[n].frames :
                a.animations[n].frames[f].translation = b.animations[n].frames[f].translation

\* One application on a mesh: Z of positions and normals negated, second
\* and third index of every complete face swapped, the rest unchanged.
MeshFlipped(a, b) ==
    /\ b.name = a.name
    /\ Len(b.vertices) = Len(a.vertices)
    /\ \A k \in DOMAIN a.vertices :
          /\ ZNegated(a.vertices[k].position, b.vertices[k].position)
          /\ ZNegated(a.vertices[k].normal, b.vertices[k].normal)
          /\ b.vertices[k].uv = a.vertices[k].uv
          /\ b.vertices[k].joint = a.vertices[k].joint
    /\ Len(b.indices) = Len(a.indices)
    /\ \A f \in 0..((Len(a.indices) \div 3) - 1) :
          /\ b.indices[3 * f + 1] = a.indices[3 * f + 1]
          /\ b.indices[3 * f + 2] = a.indices[3 * f + 3]
          /\ b.indices[3 * f + 3] = a.indices[3 * f + 2]
    /\ \A k \in (3 * (Len(a.indices) \div 3) + 1)..Len(a.indices) : b.indices[k] = a.indices[k]

\* One application on a scene.
SceneFlipped(a, b) ==
    /\ Len(b.meshes) = Len(a.meshes)
    /\ \A m \in DOMAIN a.meshes : MeshFlipped(a.meshes[m], b.meshes[m])
    /\ Len(b.skeleton) = Len(a.skeleton)
    /\ \A j \in DOMAIN a.skeleton :
          /\ ZNegated(a.skeleton[j].translation, b.skeleton[j].translation)
          /\ b.skeleton[j].parent = a.skeleton[j].parent
          /\ b.skeleton[j].children = a.skeleton[j].children
    /\ Len(b.animations) = Len(a.animations)
    /\ \A n \in DOMAIN a.animations :
          /\ b.animations[n].name = a.animations[n].name
          /\ Len(b.animations[n].frames) = Len(a.animations[n].frames)
          /\ \A f \in DOMAIN a.animations[n].frames :
                ZNegated(a.animations[n].frames[f].translation,
                         b.animations[n].frames[f].translation)

\* C14: transform applied twice gives back positions, normals, index lists,
\* joint translations and keyframe root translations; applied once it
\* negates exactly the Z components and swaps exactly the second and third
\* index of every complete face, leaving first indices, trailing indices,
\* UVs, joint indices, names and the parent/children relation unchanged.
C14_TransformInvolution ==
    /\ (mode = "transform" /\ pc \in {"once", "twice"}) => SceneFlipped(input, output)
    /\ (mode = "transform" /\ pc = "twice") =>
          /\ SceneFlipped(output, output2)
          /\ SameGeometry(input, output2)

\* A scene with two meshes, two faces and a trailing index, a skeleton and
\* an animation has been transformed twice.
C14_Witness ==
    /\ mode = "transform" /\ pc = "twice"
    /\ Len(input.meshes) = 2
    /\ Len(input.meshes[1].vertices) = 2
    /\ input.meshes[1].vertices[1].position.z = -3
    /\ input.meshes[1].indices = <<0, 1, 2, 3, 4, 5, 6>>
    /\ output.meshes[1].indices = <<0, 2, 1, 3, 5, 4, 6>>
    /\ output.meshes[1].vertices[1].position.z = 3
    /\ input.skeleton = SkeletonChain
    /\ output.skeleton[1].translation = Vec3A(1, 1, -1)
    /\ input.animations # <<>>
    /\ output.animations[1].frames[1].translation = Vec3A(1, 2, -5)
    /\ output2.meshes[1].indices = input.meshes[1].indices

(***************************************************************************)
(* GLB container length: calculate_length (src/format/gltf/exporter.rs)    *)
(***************************************************************************)
\* Bounds: byte length of the JSON string and of the binary buffer.
MaxJsonLen == 15

MaxBinLen == 15

HEADER_SIZE == 12

CHUNK_HEADER_SIZE == 8

\* length += length % 4 (lines 78 and 80)
AddRemainder(length) == length + (length % 4)

\* calculate_length (lines 73-83)
CalculateLength(json_len, bin_len) ==
    AddRemainder(AddRemainder(HEADER_SIZE + CHUNK_HEADER_SIZE + json_len)
                 + CHUNK_HEADER_SIZE + bin_len)

InitLength ==
    /\ mode = "length"
    /\ pc = "call"
    /\ input \in [json_len : 0..MaxJsonLen, bin_len : 0..MaxBinLen]
    /\ output = <<>> /\ output2 = <<>> /\ output3 = <<>>
    /\ reader = <<>>
    /\ files = <<>> /\ cursor = 0 /\ acc = None /\ importLog = <<>> /\ exported = <<>>

\* calculate_length(&json_string, &buffer) of line 54
CalculateLengthCall ==
    /\ mode = "length" /\ pc = "call"
    /\ output' = CalculateLength(input.json_len, input.bin_len)
    /\ pc' = "returned"
    /\ UNCHANGED <<mode, convVars, input, output2, output3, reader>>

NextLength == CalculateLengthCall

SpecLength == InitLength /\ [][NextLength]_vars

\* n rounded up to a multiple of 4
RoundUp4(n) == 4 * ((n + 3) \div 4)

\* C15: the length calculate_length returns is 12 + 8 + the JSON length
\* rounded up to a multiple of 4 + 8 + the buffer length rounded up to a
\* multiple of 4, and is a multiple of 4, for every JSON and buffer length.
C15_LengthIsPaddedSum ==
    (mode = "length" /\ pc = "returned") =>
        /\ output = 12 + 8 + RoundUp4(input.json_len) + 8 + RoundUp4(input.bin_len)
        /\ output % 4 = 0

(***************************************************************************)
(* Interchange (glTF binary) export (src/format/gltf/exporter.rs)          *)
(*                                                                         *)
(* root is the json::Root under construction.  The binary buffer is kept   *)
(* as its length in bytes: every claim below is about offsets and lengths, *)
(* never about the bytes stored.  Indices are 0-based as in the code.      *)
(***************************************************************************)

\* json::Root::default()
RootDefault ==
    [nodes |-> <<>>, scene |-> None, scenes |-> <<>>, skins |-> <<>>, meshes |-> <<>>,
     accessors |-> <<>>, buffer_views |-> <<>>, animations |-> <<>>, buffers |-> <<>>]

\* json::Node with the fields the exporter sets
Node(name, children, translation, mesh, skin) ==
    [name |-> name, children |-> children, translation |-> translation,
     mesh |-> mesh, skin |-> skin]

\* mem::size_of of the three component types
ComponentSize(component_type) ==
    CASE component_type = "F32" -> 4
      [] component_type = "U16" -> 2
      [] component_type = "U8" -> 1

\* Number of components of an element of each accessor type
TypeComponents(type_) ==
    CASE type_ = "Scalar" -> 1
      [] type_ = "Vec2" -> 2
      [] type_ = "Vec3" -> 3
      [] type_ = "Vec4" -> 4
      [] type_ = "Mat4" -> 16

\* Mutant of AlignTo: nothing is appended.
AlignToNothing(buffer, n) == buffer

\* align_to (lines 878-881): buffer.len() % n zero bytes are appended.
AlignTo(buffer, n) == buffer + (buffer % n)

\* Mutant of InsertBytes: the view is declared but its bytes are not written.
InsertBytesUnwritten(root, buffer, type_, component_type, count, min, max, align, byte_length, written) ==
    LET accessor == [buffer_view |-> Some(Len(root.buffer_views)), byte_offset |-> 0,
                     count |-> count, type_ |-> type_, component_type |-> component_type,
                     min |-> min, max |-> max]
        aligned == AlignTo(buffer, align)
        view == [buffer |-> Len(root.buffers), byte_offset |-> Some(aligned),
                 byte_length |-> byte_length]
    IN [root |-> [root EXCEPT !.accessors = Append(@, accessor),
                              !.buffer_views = Append(@, view)],
        buffer |-> aligned,
        accessor |-> Len(root.accessors)]

\* The common body of the insert_*_bytes functions: the accessor is built for
\* the next buffer view, the buffer is aligned to `align`, the view starts at
\* the end of the buffer, `written` bytes are written, then both are pushed
\* and the accessor's index is returned.
InsertBytes(root, buffer, type_, component_type, count, min, max, align, byte_length, written) ==
    LET accessor == [buffer_view |-> Some(Len(root.buffer_views)), byte_offset |-> 0,
                     count |-> count, type_ |-> type_, component_type |-> component_type,
                     min |-> min, max |-> max]
        aligned == AlignTo(buffer, align)
        view == [buffer |-> Len(root.buffers), byte_offset |-> Some(aligned),
                 byte_length |-> byte_length]
    IN [root |-> [root EXCEPT !.accessors = Append(@, accessor),
                              !.buffer_views = Append(@, view)],
        buffer |-> aligned + written,
        accessor |-> Len(root.accessors)]

\* iter().min_by(partial_cmp) and max_by(partial_cmp) followed by
\* unwrap_or_default(), on numbers that are not NaN
MinOrDefault(s) ==
    IF s = <<>> THEN 0 ELSE CHOOSE m \in Range(s) : \A x \in Range(s) : m <= x

MaxOrDefault(s) ==
    IF s = <<>> THEN 0 ELSE CHOOSE m \in Range(s) : \A x \in Range(s) : m >= x

\* insert_positions_bytes (lines 374-456)
InsertPositionsBytes(root, buffer, mesh) ==
    LET xs == [k \in DOMAIN mesh.vertices |-> mesh.vertices[k].position.x]
        ys == [k \in DOMAIN mesh.vertices |-> mesh.vertices[k].position.y]
        zs == [k \in DOMAIN mesh.vertices |-> mesh.vertices[k].position.z]
    IN InsertBytes(root, buffer, "Vec3", "F32", Len(mesh.vertices),
                   Some(<<MinOrDefault(xs), MinOrDefault(ys), MinOrDefault(zs)>>),
                   Some(<<MaxOrDefault(xs), MaxOrDefault(ys), MaxOrDefault(zs)>>),
                   4, Len(mesh.vertices) * 12, Len(mesh.vertices) * 3 * 4)

\* insert_normals_bytes (lines 458-498)
InsertNormalsBytes(root, buffer, mesh) ==
    InsertBytes(root, buffer, "Vec3", "F32", Len(mesh.vertices), None, None,
                4, Len(mesh.vertices) * 12, Len(mesh.vertices) * 3 * 4)

\* insert_uv_bytes (lines 500-540)
InsertUvBytes(root, buffer, mesh) ==
    InsertBytes(root, buffer, "Vec2", "F32", Len(mesh.vertices), None, None,
                4, Len(mesh.vertices) * 8, Len(mesh.vertices) * 2 * 4)

\* insert_joints_bytes (lines 542-580): four bytes per vertex
InsertJointsBytes(root, buffer, mesh) ==
    InsertBytes(root, buffer, "Vec4", "U8", Len(mesh.vertices), None, None,
                1, Len(mesh.vertices) * 4, Len(mesh.vertices) * 4)

\* insert_weights_bytes (lines 582-626)
InsertWeightsBytes(root, buffer, mesh) ==
    InsertBytes(root, buffer, "Vec4", "F32", Len(mesh.vertices), None, None,
                4, Len(mesh.vertices) * 16, Len(mesh.vertices) * 4 * 4)

\* insert_indices_bytes (lines 628-666): one u16 per index
InsertIndicesBytes(root, buffer, mesh) ==
    InsertBytes(root, buffer, "Scalar", "U16", Len(mesh.indices), None, None,
                2, Len(mesh.indices) * 2, Len(mesh.indices) * 2)

\* The outcome of the joint_world_translation calls of lines 702-703: "ok",
\* or the first outcome that is not.
InverseBindOutcome(skeleton) ==
    LET bad == {i \in 0..(Len(skeleton) - 1) :
                    JointWorldTranslation(skeleton, i).kind # "ok"}
    IN IF bad = {} THEN "ok"
       ELSE JointWorldTranslation(skeleton, CHOOSE i \in bad : \A j \in bad : i <= j).kind

\* insert_inverse_bind_bytes (lines 668-716): one 4x4 matrix per joint
InsertInverseBindBytes(root, buffer, scene) ==
    InsertBytes(root, buffer, "Mat4", "F32", Len(scene.skeleton), None, None,
                4, Len(scene.skeleton) * 64, Len(scene.skeleton) * 16 * 4)

\* Animation::sampling_rate (scene.rs lines 83-85)
SamplingRate(animation) == 55

\* Lines 723-728: frame i is at i * (1 / sampling_rate) seconds, kept as the
\* fraction num / den.
Times(animation) ==
    [k \in DOMAIN animation.frames |-> [num |-> k - 1, den |-> SamplingRate(animation)]]

\* partial_cmp on two times
TimeLessEq(a, b) == a.num * b.den <= b.num * a.den

\* Lines 738-754: min and max are both computed with min_by; an empty list
\* gives the default 0.
TimesMinBy(times) ==
    IF times = <<>> THEN [num |-> 0, den |-> 1]
    ELSE CHOOSE m \in Range(times) : \A x \in Range(times) : TimeLessEq(m, x)

\* insert_time_bytes (lines 718-783)
InsertTimeBytes(root, buffer, animation) ==
    InsertBytes(root, buffer, "Scalar", "F32", Len(animation.frames),
                Some(<<TimesMinBy(Times(animation))>>), Some(<<TimesMinBy(Times(animation))>>),
                4, Len(animation.frames) * 4, Len(Times(animation)) * 4)

\* insert_translations_bytes (lines 785-829)
InsertTranslationsBytes(root, buffer, animation) ==
    InsertBytes(root, buffer, "Vec3", "F32", Len(animation.frames), None, None,
                4, Len(animation.frames) * 12, Len(animation.frames) * 3 * 4)

\* insert_rotations_bytes (lines 831-876): one quaternion per matrix
InsertRotationsBytes(root, buffer, rotations) ==
    InsertBytes(root, buffer, "Vec4", "F32", Len(rotations), None, None,
                4, Len(rotations) * 16, Len(rotations) * 4 * 4)

RECURSIVE TransformsAt(_, _)
\* Animation::joints (scene.rs lines 70-81), one row: the matrices at 0-based
\* position index of the frames that have one, in frame order.
TransformsAt(frames, index) ==
    IF frames = <<>> THEN <<>>
    ELSE (IF index < Len(Head(frames).transforms)
          THEN <<Head(frames).transforms[index + 1]>> ELSE <<>>)
         \o TransformsAt(Tail(frames), index)

\* Animation::joints: result has as many rows as the longest transform list.
AnimationJoints(animation) ==
    LET lens == {Len(animation.frames[k].transforms) : k \in DOMAIN animation.frames}
        rows == IF lens = {} THEN 0 ELSE CHOOSE n \in lens : \A m \in lens : n >= m
    IN [i \in 1..rows |-> TransformsAt(animation.frames, i - 1)]

\* Mutant of RootNodes: every joint is taken for a root.
RootNodesAll(skeleton, offset, index) ==
    [k \in 1..(Len(skeleton) - index) |-> offset + index + k - 1]

RECURSIVE RootNodes(_, _, _)
\* Lines 148-151: offset + index of the joints without parent from 0-based
\* position index on, in skeleton order.
RootNodes(skeleton, offset, index) ==
    IF index >= Len(skeleton) THEN <<>>
    ELSE (IF skeleton[index + 1].parent = None THEN <<offset + index>> ELSE <<>>)
         \o RootNodes(skeleton, offset, index + 1)

\* push_skeleton_nodes (lines 144-195): one node per joint, then the node
\* "skeleton" whose children are the roots; returns the index of that node.
PushSkeletonNodes(nodes, skeleton) ==
    LET offset == Len(nodes)
        joint_nodes ==
            [k \in DOMAIN skeleton |->
                Node(Some(<<"bone", k - 1>>),
                     IF skeleton[k].children # <<>>
                     THEN Some([c \in DOMAIN skeleton[k].children |->
                                    offset + skeleton[k].children[c]])
                     ELSE None,
                     Some(Vec3AToArray(skeleton[k].translation)), None, None)]
        pushed == (nodes \o joint_nodes)
                  \o <<Node(Some(<<"skeleton">>), Some(RootNodes(skeleton, offset, 0)),
                            None, None, None)>>
    IN [nodes |-> pushed, index |-> Len(pushed) - 1]

\* push_mesh_node (lines 197-214): the node of the mesh at 0-based index.
MeshNode(mesh, index) == Node(Some(<<"mesh", mesh.name>>), None, None, Some(index), Some(0))

\* insert_scene (lines 120-142)
InsertScene(root, skeleton, meshes) ==
    LET sk == PushSkeletonNodes(root.nodes, skeleton)
        mesh_nodes == [k \in DOMAIN meshes |-> MeshNode(meshes[k], k - 1)]
        nodes == <<sk.index>> \o [k \in DOMAIN meshes |-> Len(sk.nodes) + k - 1]
    IN [root |-> [root EXCEPT !.nodes = sk.nodes \o mesh_nodes,
                              !.scene = Some(0),
                              !.scenes = Append(@, [nodes |-> nodes])],
        skeleton_node |-> sk.index]

\* Mutant of InsertSkins: no skin is inserted.
InsertSkinsNever(root, buffer, scene, skeleton_index) == [root |-> root, buffer |-> buffer]

\* insert_skins (lines 216-238) for a skeleton whose world translations can
\* all be computed
InsertSkins(root, buffer, scene, skeleton_index) ==
    IF scene.skeleton = <<>> THEN [root |-> root, buffer |-> buffer]
    ELSE LET r == InsertInverseBindBytes(root, buffer, scene)
         IN [root |-> [r.root EXCEPT !.skins =
                          <<[inverse_bind_matrices |-> Some(r.accessor),
                             joints |-> [k \in DOMAIN scene.skeleton |-> k - 1],
                             skeleton |-> Some(skeleton_index)]>>],
             buffer |-> r.buffer]

\* Lines 249-286: the json::Mesh pushed after the six accessors of a mesh.
GltfMesh(mesh, accessors) ==
    [name |-> Some(<<"mesh", mesh.name>>),
     primitives |-> <<[attributes |-> [Positions |-> accessors[1], Normals |-> accessors[2],
                                       TexCoords0 |-> accessors[3], Joints0 |-> accessors[4],
                                       Weights0 |-> accessors[5]],
                       indices |-> Some(accessors[6])]>>]

\* Lines 309-315: the json::Animation before its samplers and channels.
GltfAnimation(animation) == [name |-> Some(animation.name), samplers |-> <<>>, channels |-> <<>>]

\* Mutant of PushSamplerChannel: every channel refers to sampler 0.
PushSamplerChannelFirst(gltf_animation, input_accessor, output_accessor, node, path) ==
    [gltf_animation EXCEPT
        !.samplers = Append(@, [input |-> input_accessor, output |-> output_accessor,
                                interpolation |-> "Linear"]),
        !.channels = Append(@, [sampler |-> 0, target |-> [node |-> node, path |-> path]])]

\* Lines 320-339 and 343-363: a sampler and its channel are pushed; the
\* channel's sampler index is channels.len() before the push.
PushSamplerChannel(gltf_animation, input_accessor, output_accessor, node, path) ==
    [gltf_animation EXCEPT
        !.samplers = Append(@, [input |-> input_accessor, output |-> output_accessor,
                                interpolation |-> "Linear"]),
        !.channels = Append(@, [sampler |-> Len(gltf_animation.channels),
                                target |-> [node |-> node, path |-> path]])]

\* Sample scenes for the export.
MaxGltfVertices == 1

MaxGltfIndices == 3

MaxGltfFrames == 2

MaxGltfTransforms == 2

GltfVertex(k) ==
    Vertex(Vec3A(k, 0 - k, 2 * k), Vec3A(0, 0, 1), Vec2(k, 1),
           IF k % 2 = 1 THEN Some(0) ELSE None)

GltfMeshes ==
    {<<>>} \cup
    {<<Mesh("first", [k \in 1..nv |-> GltfVertex(k)], TransformIndices(ni))>> \o tail :
        nv \in 0..MaxGltfVertices, ni \in 0..MaxGltfIndices, tail \in {<<>>, <<SecondMesh>>}}

\* Up to MaxGltfFrames keyframes with 0..MaxGltfTransforms matrices each; the
\* last keyframe may have one matrix less than the others.
GltfFrames ==
    {[k \in 1..n |->
        Keyframe(Vec3A(k, 1, 2),
                 [j \in 1..(IF k = n /\ t > 0 THEN t - short ELSE t) |->
                     Mat4FromColsArray2d(MatrixA)])] :
        n \in 0..MaxGltfFrames, t \in 0..MaxGltfTransforms, short \in {0, 1}}

\* A second, fixed animation of one keyframe with one matrix.
SecondAnimation ==
    Animation("second", <<Keyframe(Vec3A(0, 0, 0), <<Mat4FromColsArray2d(MatrixB)>>)>>)

GltfAnimations ==
    {<<>>} \cup
    {<<Animation("walk", fs)>> \o tail : fs \in GltfFrames, tail \in {<<>>, <<SecondAnimation>>}}

\* Skeletons: none, one joint, two roots, a parent and its child, a chain of
\* three, and one whose parent links form a cycle.
GltfSkeletons ==
    {<<>>,
     <<Joint(Vec3A(1, 2, 3), None, <<>>)>>,
     <<Joint(Vec3A(1, 2, 3), None, <<>>), Joint(Vec3A(4, 5, 6), None, <<>>)>>,
     <<Joint(Vec3A(1, 2, 3), None, <<1>>), Joint(Vec3A(4, 5, 6), Some(0), <<>>)>>,
     SkeletonChain,
     SkeletonCycle}

GltfScenes ==
    {[meshes |-> ms, skeleton |-> sk, animations |-> an] :
        ms \in GltfMeshes, sk \in GltfSkeletons, an \in GltfAnimations}

\* The locals of export and of the loops of insert_meshes and
\* insert_animations.
GltfLocals(scene, skeleton_index) ==
    [scene |-> scene, skeleton_index |-> skeleton_index, accessors |-> <<>>,
     gltf_animation |-> <<>>, time_accessor |-> 0]

\* GltfExporter::export is called on a scene (line 22): root and buffer are
\* empty (lines 23-24).
InitGltf ==
    /\ mode = "gltf"
    /\ pc = "insert_scene"
    /\ input \in GltfScenes
    /\ output = RootDefault
    /\ output2 = 0
    /\ output3 = <<>>
    /\ reader = 0
    /\ files = <<>> /\ cursor = 0 /\ acc = None /\ importLog = <<>> /\ exported = <<>>

\* The json::Root, the length of the buffer and the locals of the export.
GltfRoot == output

GltfBuffer == output2

\* Lines 26-28: the scene is transformed, then insert_scene.
GltfInsertScene ==
    /\ mode = "gltf" /\ pc = "insert_scene"
    /\ LET scene == Transform(input)
           r == InsertScene(output, scene.skeleton, scene.meshes)
       IN /\ output' = r.root
          /\ output3' = GltfLocals(scene, r.skeleton_node)
    /\ pc' = "insert_meshes"
    /\ UNCHANGED <<mode, convVars, input, output2, reader>>

\* One insert_*_bytes call of the loop of insert_meshes (lines 242-247):
\* reader counts the calls made for the mesh at cursor.
GltfMeshBytes(step, r) ==
    /\ mode = "gltf" /\ pc = "insert_meshes"
    /\ cursor < Len(output3.scene.meshes)
    /\ reader = step
    /\ output' = r.root
    /\ output2' = r.buffer
    /\ output3' = [output3 EXCEPT !.accessors = Append(@, r.accessor)]
    /\ reader' = step + 1
    /\ UNCHANGED <<mode, pc, convVars, input>>

GltfCurrentMesh == output3.scene.meshes[cursor + 1]

GltfInsertPositions == GltfMeshBytes(0, InsertPositionsBytes(output, output2, GltfCurrentMesh))

GltfInsertNormals == GltfMeshBytes(1, InsertNormalsBytes(output, output2, GltfCurrentMesh))

GltfInsertUv == GltfMeshBytes(2, InsertUvBytes(output, output2, GltfCurrentMesh))

GltfInsertJoints == GltfMeshBytes(3, InsertJointsBytes(output, output2, GltfCurrentMesh))

GltfInsertWeights == GltfMeshBytes(4, InsertWeightsBytes(output, output2, GltfCurrentMesh))

GltfInsertIndices == GltfMeshBytes(5, InsertIndicesBytes(output, output2, GltfCurrentMesh))

\* Lines 249-286: the mesh is pushed and the loop goes to the next mesh.
GltfPushMesh ==
    /\ mode = "gltf" /\ pc = "insert_meshes"
    /\ cursor < Len(output3.scene.meshes)
    /\ reader = 6
    /\ output' = [output EXCEPT !.meshes = Append(@, GltfMesh(GltfCurrentMesh, output3.accessors))]
    /\ output3' = [output3 EXCEPT !.accessors = <<>>]
    /\ cursor' = cursor + 1
    /\ reader' = 0
    /\ UNCHANGED <<mode, pc, files, acc, importLog, exported, input, output2>>

\* Line 288: insert_meshes returns.
GltfInsertMeshesReturn ==
    /\ mode = "gltf" /\ pc = "insert_meshes"
    /\ cursor = Len(output3.scene.meshes)
    /\ pc' = "insert_skins"
    /\ UNCHANGED <<mode, convVars, ioVars>>

\* Line 30: insert_skins.  The export does not return when a
\* joint_world_translation call panics or does not end.
GltfInsertSkins ==
    /\ mode = "gltf" /\ pc = "insert_skins"
    /\ LET outcome == InverseBindOutcome(output3.scene.skeleton)
           r == InsertSkins(output, output2, output3.scene, output3.skeleton_index)
       IN IF outcome = "ok"
          THEN output' = r.root /\ output2' = r.buffer /\ pc' = "insert_animations"
          ELSE pc' = (IF outcome = "panic" THEN "panicked" ELSE "diverged")
               /\ UNCHANGED <<output, output2>>
    /\ cursor' = 0
    /\ UNCHANGED <<mode, files, acc, importLog, exported, input, output3, reader>>

GltfCurrentAnimation == output3.scene.animations[cursor + 1]

\* Lines 309-317: the animation at cursor is started and insert_time_bytes
\* is called.
GltfInsertTime ==
    /\ mode = "gltf" /\ pc = "insert_animations"
    /\ cursor < Len(output3.scene.animations)
    /\ reader = 0
    /\ LET r == InsertTimeBytes(output, output2, GltfCurrentAnimation)
       IN /\ output' = r.root
          /\ output2' = r.buffer
          /\ output3' = [output3 EXCEPT !.gltf_animation = GltfAnimation(GltfCurrentAnimation),
                                        !.time_accessor = r.accessor]
    /\ reader' = 1
    /\ UNCHANGED <<mode, pc, convVars, input>>

\* Lines 319-339: the translations and their sampler and channel, which
\* targets the skeleton node.
GltfInsertTranslations ==
    /\ mode = "gltf" /\ pc = "insert_animations"
    /\ cursor < Len(output3.scene.animations)
    /\ reader = 1
    /\ LET r == InsertTranslationsBytes(output, output2, GltfCurrentAnimation)
       IN /\ output' = r.root
          /\ output2' = r.buffer
          /\ output3' = [output3 EXCEPT !.gltf_animation =
                            PushSamplerChannel(@, output3.time_accessor, r.accessor,
                                               output3.skeleton_index, "Translation")]
    /\ reader' = 2
    /\ UNCHANGED <<mode, pc, convVars, input>>

\* Line 341: the number of iterations of the loop over joints().
GltfRotationRows ==
    Min(Len(AnimationJoints(GltfCurrentAnimation)), Len(output3.scene.skeleton))

\* Lines 341-366: one iteration of the loop over the rows of joints(); the
\* 0-based index of the iteration is reader - 2.
GltfInsertRotations ==
    /\ mode = "gltf" /\ pc = "insert_animations"
    /\ cursor < Len(output3.scene.animations)
    /\ reader >= 2
    /\ reader - 2 < GltfRotationRows
    /\ LET r == InsertRotationsBytes(output, output2,
                                     AnimationJoints(GltfCurrentAnimation)[reader - 1])
       IN /\ output' = r.root
          /\ output2' = r.buffer
          /\ output3' = [output3 EXCEPT !.gltf_animation =
                            PushSamplerChannel(@, output3.time_accessor, r.accessor,
                                               reader - 2, "Rotation")]
    /\ reader' = reader + 1
    /\ UNCHANGED <<mode, pc, convVars, input>>

\* Line 368: the animation is pushed and the loop goes to the next one.
GltfPushAnimation ==
    /\ mode = "gltf" /\ pc = "insert_animations"
    /\ cursor < Len(output3.scene.animations)
    /\ reader >= 2
    /\ reader - 2 = GltfRotationRows
    /\ output' = [output EXCEPT !.animations = Append(@, output3.gltf_animation)]
    /\ output3' = [output3 EXCEPT !.gltf_animation = <<>>]
    /\ cursor' = cursor + 1
    /\ reader' = 0
    /\ UNCHANGED <<mode, pc, files, acc, importLog, exported, input, output2>>

\* Lines 371 and 38: insert_animations returns and insert_buffers
\* (lines 291-299) declares the single buffer.
GltfInsertBuffers ==
    /\ mode = "gltf" /\ pc = "insert_animations"
    /\ cursor = Len(output3.scene.animations)
    /\ output' = [output EXCEPT !.buffers = Append(@, [byte_length |-> output2])]
    /\ pc' = "done"
    /\ UNCHANGED <<mode, convVars, input, output2, output3, reader>>

NextGltf ==
    \/ GltfInsertScene
    \/ GltfInsertPositions
    \/ GltfInsertNormals
    \/ GltfInsertUv
    \/ GltfInsertJoints
    \/ GltfInsertWeights
    \/ GltfInsertIndices
    \/ GltfPushMesh
    \/ GltfInsertMeshesReturn
    \/ GltfInsertSkins
    \/ GltfInsertTime
    \/ GltfInsertTranslations
    \/ GltfInsertRotations
    \/ GltfPushAnimation
    \/ GltfInsertBuffers

SpecGltf == InitGltf /\ [][NextGltf]_vars

\* The buffer view an accessor refers to.
ViewOf(root, accessor) == root.buffer_views[accessor.buffer_view[1] + 1]

\* C16: at every step of an interchange export, every buffer view begins at
\* a byte offset that is a multiple of the byte size of its accessor's
\* component type (4 for floats, 2 for 16-bit indices, 1 for joint bytes).
C16_ViewsAligned ==
    (mode = "gltf" /\ pc # "insert_scene") =>
        \A a \in DOMAIN GltfRoot.accessors :
            /\ GltfRoot.accessors[a].buffer_view # None
            /\ GltfRoot.accessors[a].buffer_view[1] < Len(GltfRoot.buffer_views)
            /\ ViewOf(GltfRoot, GltfRoot.accessors[a]).byte_offset[1]
                   % ComponentSize(GltfRoot.accessors[a].component_type) = 0

\* A view of floats begins after padding: the view before it, of an odd
\* number of 16-bit indices, ends two bytes earlier.
C16_Witness ==
    /\ mode = "gltf" /\ pc # "insert_scene"
    /\ \E v \in DOMAIN GltfRoot.buffer_views :
        /\ v > 1
        /\ GltfRoot.accessors[v].component_type = "F32"
        /\ GltfRoot.accessors[v - 1].component_type = "U16"
        /\ GltfRoot.buffer_views[v].byte_offset[1] =
               GltfRoot.buffer_views[v - 1].byte_offset[1]
               + GltfRoot.buffer_views[v - 1].byte_length + 2

\* The 0-based accessor indices the samplers of the exported animations use.
SamplerAccessors(root) ==
    UNION {UNION {{root.animations[a].samplers[s].input, root.animations[a].samplers[s].output} :
                     s \in DOMAIN root.animations[a].samplers} : a \in DOMAIN root.animations}

\* C17: an export of a scene with n >= 1 joints and no meshes that returns
\* has n + 1 nodes, none of which references a mesh, exactly one skin listing
\* the n joints, no mesh entry, and no buffer view or accessor other than
\* the inverse-bind-matrix one and those of the animations; with no
\* animations the inverse-bind-matrix one is the only one.
C17_SkeletonOnlyExport ==
    (mode = "gltf" /\ pc = "done" /\ input.meshes = <<>> /\ Len(input.skeleton) >= 1) =>
        /\ Len(GltfRoot.nodes) = Len(input.skeleton) + 1
        /\ \A n \in DOMAIN GltfRoot.nodes : GltfRoot.nodes[n].mesh = None
        /\ GltfRoot.meshes = <<>>
        /\ Len(GltfRoot.skins) = 1
        /\ GltfRoot.skins[1].joints = [k \in 1..Len(input.skeleton) |-> k - 1]
        /\ GltfRoot.skins[1].inverse_bind_matrices = Some(0)
        /\ Len(GltfRoot.accessors) = Len(GltfRoot.buffer_views)
        /\ GltfRoot.accessors[1].type_ = "Mat4"
        /\ GltfRoot.accessors[1].count = Len(input.skeleton)
        /\ \A a \in DOMAIN GltfRoot.accessors :
            /\ GltfRoot.accessors[a].component_type = "F32"
            /\ a > 1 => (a - 1) \in SamplerAccessors(GltfRoot)
        /\ input.animations = <<>> => Len(GltfRoot.accessors) = 1

\* The scenario: two joints, no meshes, no animations, and the export
\* returned a document with a skin.
C17_Witness ==
    /\ mode = "gltf" /\ pc = "done"
    /\ input.meshes = <<>> /\ input.animations = <<>> /\ Len(input.skeleton) = 2
    /\ Len(GltfRoot.nodes) = 3
    /\ Len(GltfRoot.skins) = 1

(***************************************************************************)
(* The import bone resolver on arbitrary bone lists                        *)
(* (convert_joints, src/format/grandchase/p3m/importer.rs lines 22-55)     *)
(***************************************************************************)
MaxResolverPositionBones == 2

MaxResolverAngleBones == 3

\* Child lists of the sample bones: none, one index, two indices in
\* descending order, and an index that is outside the shorter lists.
SampleChildLists == {<<>>, <<0>>, <<1>>, <<1, 0>>, <<2>>}

\* internal.rs PositionBone and AngleBone; the position of the bone at
\* 0-based index p is (p + 1, p + 1, p + 1) as in tests::joints.
ResolverPositionBones ==
    UNION {{[p \in 1..n |-> [position |-> <<p, p, p>>, children |-> cs[p]]] :
               cs \in [1..n -> SampleChildLists]} : n \in 0..MaxResolverPositionBones}

ResolverAngleBones ==
    UNION {{[a \in 1..n |-> [position |-> <<0, 0, 0>>, scale |-> 0, children |-> cs[a]]] :
               cs \in [1..n -> SampleChildLists]} : n \in 0..MaxResolverAngleBones}

\* convert_joints is called on two bone lists (line 22).
InitResolver ==
    /\ mode = "joints"
    /\ pc = "import"
    /\ \E pb \in ResolverPositionBones, ab \in ResolverAngleBones :
          /\ output = Ok([position_bones |-> pb, angle_bones |-> ab])
          /\ reader = ImportStart(ab)
    /\ input = <<>>
    /\ output2 = <<>> /\ output3 = <<>>
    /\ files = <<>> /\ cursor = 0 /\ acc = None /\ importLog = <<>> /\ exported = <<>>

NextResolver ==
    \/ ImportTranslation
    \/ ImportChildren
    \/ ImportParents
    \/ ImportReturn

SpecResolver == InitResolver /\ [][NextResolver]_vars

\* The 0-based indices of the position bones that list the joint as a child.
ListedBy(position_bones, joint) ==
    {p - 1 : p \in {q \in DOMAIN position_bones : joint \in Range(position_bones[q].children)}}

\* The largest element of a non-empty set of numbers.
Largest(S) == CHOOSE m \in S : \A x \in S : x <= m

\* C19: the import bone resolver returns one joint per angle bone, in order;
\* the children of joint i are the child lists of the position bones that
\* angle bone i lists, concatenated in order; a joint's translation is that
\* of the last position bone that lists it as a child, zero if none does.
C19_ResolverSquashesBones ==
    (mode = "joints" /\ pc = "imported") =>
        /\ Len(output2.val) = Len(Bones.angle_bones)
        /\ \A i \in DOMAIN output2.val :
            /\ i \in DOMAIN Bones.angle_bones
            /\ output2.val[i].children =
                 Flatten([n \in DOMAIN Bones.angle_bones[i].children |->
                     Bones.position_bones[Bones.angle_bones[i].children[n] + 1].children])
            /\ output2.val[i].translation =
                 IF ListedBy(Bones.position_bones, i - 1) = {} THEN Vec3A(0, 0, 0)
                 ELSE ArrayToVec3A(
                        Bones.position_bones[Largest(ListedBy(Bones.position_bones, i - 1)) + 1]
                            .position)

\* A joint listed by two position bones has the translation of the second,
\* another joint is listed by none, and a joint's children come from two
\* position bones.
C19_Witness ==
    /\ mode = "joints" /\ pc = "imported" /\ input = <<>>
    /\ Len(output2.val) = 3
    /\ ListedBy(Bones.position_bones, 0) = {0, 1}
    /\ output2.val[1].translation = Vec3A(2, 2, 2)
    /\ ListedBy(Bones.position_bones, 2) = {}
    /\ output2.val[3].translation = Vec3A(0, 0, 0)
    /\ Bones.angle_bones[1].children = <<1, 0>>
    /\ Len(output2.val[1].children) = 3

\* The 0-based indices of the joints that list the joint as a child.
ListingJoints(joints, joint) ==
    {p - 1 : p \in {q \in DOMAIN joints : joint \in Range(joints[q].children)}}

\* C20 as stated: in every returned skeleton, if A lists B as a child then
\* B's parent is A, and a joint has no parent exactly if no joint lists it.
C20_Original ==
    (mode = "joints" /\ pc = "imported") =>
        \A b \in DOMAIN output2.val :
            /\ \A a \in ListingJoints(output2.val, b - 1) : output2.val[b].parent = Some(a)
            /\ (output2.val[b].parent = None) <=> (ListingJoints(output2.val, b - 1) = {})

\* C20, amended: in every returned skeleton, the parent of a joint B is the
\* last joint (the one with the largest index) that lists B as a child, which
\* is A whenever A is the only joint that lists B, and a joint has no parent
\* exactly if no joint lists it.
C20_ParentIsLastListing ==
    (mode = "joints" /\ pc = "imported") =>
        \A b \in DOMAIN output2.val :
            /\ (output2.val[b].parent = None) <=> (ListingJoints(output2.val, b - 1) = {})
            /\ ListingJoints(output2.val, b - 1) # {} =>
                 output2.val[b].parent = Some(Largest(ListingJoints(output2.val, b - 1)))

\* Two joints list the same child; its parent is the second of them.
C20_Witness ==
    /\ mode = "joints" /\ pc = "imported" /\ input = <<>>
    /\ Len(output2.val) = 3
    /\ ListingJoints(output2.val, 2) = {0, 1}
    /\ output2.val[3].parent = Some(1)

(***************************************************************************)
(* Claims about the export bone conversion on skeletons with several roots *)
(***************************************************************************)
\* The 0-based indices of the position bones that list the joint as a child.
BonesOf(position_bones, joint) == ListedBy(position_bones, joint)

\* C21: on a skeleton with r >= 2 parentless joints (within MAX_NUM_BONES,
\* parent and children fields consistent) the export convert_joints completes
\* and returns (number of joints - (r - 1)) position bones; one of them lists
\* exactly the parentless joints, every other joint keeps a position bone of
\* its own with its own translation, and every angle-bone child index is
\* inside the position-bone list and refers to the position bone of the
\* joint it referred to before the removals.
C21_RootsAggregated ==
    (/\ mode = "joints" /\ input # <<>> /\ output # <<>>
     /\ Len(input) <= MAX_NUM_BONES
     /\ Consistent(input)
     /\ Cardinality(Roots(input)) >= 2) =>
        /\ output.ok
        /\ Len(output.val.position_bones) = Len(input) - (Cardinality(Roots(input)) - 1)
        /\ Len(output.val.angle_bones) = Len(input)
        /\ \E p \in DOMAIN output.val.position_bones :
              Range(output.val.position_bones[p].children) = Roots(input)
        /\ \A j \in DOMAIN input :
              input[j].parent # None =>
                 \E p \in DOMAIN output.val.position_bones :
                    /\ output.val.position_bones[p].children = <<j - 1>>
                    /\ output.val.position_bones[p].position = Vec3AToArray(input[j].translation)
        /\ \A j \in DOMAIN input :
              /\ Len(output.val.angle_bones[j].children) = Len(input[j].children)
              /\ \A k \in DOMAIN input[j].children :
                    /\ output.val.angle_bones[j].children[k] < Len(output.val.position_bones)
                    /\ output.val.angle_bones[j].children[k]
                          \in BonesOf(output.val.position_bones, input[j].children[k])

(***************************************************************************)
(* The import bone resolver on bones decoded from P3M bytes                *)
(* (PositionBone::from_reader, AngleBone::from_reader, convert_joints)     *)
(***************************************************************************)
MaxDecodedPositionBones == 1

MaxDecodedAngleBones == 2

\* The 10 child slots of the sample bones: no child, one child, a child
\* after an unused slot, six children and ten children.
SampleSlots ==
    {[x \in 1..10 |-> 255],
     <<0>> \o [x \in 1..9 |-> 255],
     <<255, 1>> \o [x \in 1..8 |-> 255],
     [x \in 1..6 |-> 0] \o [x \in 1..4 |-> 255],
     [x \in 1..10 |-> 0]}

\* The bytes of the position bones and of the angle bones of a P3M file,
\* one byte string per bone.
DecodedInputs ==
    UNION {{[position_bytes |-> [p \in 1..np |-> LE_F1 \o LE_F0 \o LE_F0 \o ps[p] \o <<255, 255>>],
             angle_bytes |-> [a \in 1..na |->
                                 LE_F0 \o LE_F0 \o LE_F0 \o LE_F0 \o as[a] \o <<255, 255>>]] :
               ps \in [1..np -> SampleSlots], as \in [1..na -> SampleSlots]} :
           np \in 0..MaxDecodedPositionBones, na \in 0..MaxDecodedAngleBones}

InitDecodedBones ==
    /\ mode = "joints"
    /\ pc = "decode"
    /\ input \in DecodedInputs
    /\ output = <<>> /\ output2 = <<>> /\ output3 = <<>>
    /\ reader = <<>>
    /\ files = <<>> /\ cursor = 0 /\ acc = None /\ importLog = <<>> /\ exported = <<>>

\* P3m::from_bytes decodes the bones (internal.rs lines 42-50) and import
\* hands them to convert_joints (importer.rs line 13).
DecodeBones ==
    /\ mode = "joints" /\ pc = "decode"
    /\ LET pb == [p \in DOMAIN input.position_bytes |->
                     PositionBoneFromReader(input.position_bytes[p], 0).val]
           ab == [a \in DOMAIN input.angle_bytes |->
                     AngleBoneFromReader(input.angle_bytes[a], 0).val]
       IN /\ output' = Ok([position_bones |-> pb, angle_bones |-> ab])
          /\ reader' = ImportStart(ab)
    /\ pc' = "import"
    /\ UNCHANGED <<mode, convVars, input, output2, output3>>

NextDecodedBones ==
    \/ DecodeBones
    \/ ImportTranslation
    \/ ImportChildren
    \/ ImportParents
    \/ ImportReturn

SpecDecodedBones == InitDecodedBones /\ [][NextDecodedBones]_vars

\* C22: every bone decoded by the mesh codec has at most 10 children, none
\* of them the sentinel 255, and every joint of the skeleton the import bone
\* resolver returns for the decoded bones has at most 10 children.
C22_AtMostTenChildren ==
    (mode = "joints" /\ pc # "decode") =>
        /\ \A p \in DOMAIN Bones.position_bones :
              /\ Len(Bones.position_bones[p].children) <= 10
              /\ 255 \notin Range(Bones.position_bones[p].children)
        /\ \A a \in DOMAIN Bones.angle_bones :
              /\ Len(Bones.angle_bones[a].children) <= 10
              /\ 255 \notin Range(Bones.angle_bones[a].children)
        /\ pc = "imported" =>
              \A j \in DOMAIN output2.val : Len(output2.val[j].children) <= 10

(***************************************************************************)
(* Claims about the documents of the interchange export                    *)
(***************************************************************************)
\* C23: insert_scene on a skeleton of n joints and m meshes emits node i
\* (i < n) for joint i, named by its index, with the joint's translation and
\* children; node n is the skeleton root node whose children are exactly the
\* parentless joints; nodes n+1 .. n+m are the mesh nodes in mesh order, mesh
\* node k referencing mesh k and skin 0; it returns n and the scene's root
\* node list is [n, n+1, ..., n+m].
C23_NodeOrder ==
    (mode = "gltf" /\ pc # "insert_scene") =>
        LET skeleton == output3.scene.skeleton
            meshes == output3.scene.meshes
            n == Len(skeleton)
            m == Len(meshes)
        IN /\ Len(GltfRoot.nodes) = n + 1 + m
           /\ \A i \in 1..n :
                /\ GltfRoot.nodes[i].name = Some(<<"bone", i - 1>>)
                /\ GltfRoot.nodes[i].translation = Some(Vec3AToArray(skeleton[i].translation))
                /\ GltfRoot.nodes[i].children =
                      (IF skeleton[i].children = <<>> THEN None ELSE Some(skeleton[i].children))
                /\ GltfRoot.nodes[i].mesh = None /\ GltfRoot.nodes[i].skin = None
           /\ GltfRoot.nodes[n + 1].children # None
           /\ Range(GltfRoot.nodes[n + 1].children[1]) = Roots(skeleton)
           /\ Len(GltfRoot.nodes[n + 1].children[1]) = Cardinality(Roots(skeleton))
           /\ GltfRoot.nodes[n + 1].mesh = None
           /\ \A k \in 1..m :
                /\ GltfRoot.nodes[n + 1 + k].mesh = Some(k - 1)
                /\ GltfRoot.nodes[n + 1 + k].skin = Some(0)
                /\ GltfRoot.nodes[n + 1 + k].children = None
           /\ output3.skeleton_index = n
           /\ GltfRoot.scene = Some(0)
           /\ Len(GltfRoot.scenes) = 1
           /\ GltfRoot.scenes[1].nodes = [k \in 1..(m + 1) |-> n + k - 1]

\* Two parentless joints and two meshes: five nodes, the skeleton node lists
\* both joints and the last node is the second mesh.
C23_Witness ==
    /\ mode = "gltf" /\ pc = "done"
    /\ Len(output3.scene.skeleton) = 2
    /\ Len(output3.scene.meshes) = 2
    /\ GltfRoot.nodes[3].children = Some(<<0, 1>>)
    /\ GltfRoot.nodes[5].mesh = Some(1)
    /\ GltfRoot.scenes[1].nodes = <<2, 3, 4>>

\* What C24 says of every exported animation but the number of rotation
\* channels: as many channels as samplers, channel k uses sampler k, every
\* sampler is linear and has the same time input, channel 0 targets the
\* translation of the skeleton node, channel k >= 1 the rotation of node
\* k - 1, which is a joint.
ChannelsWellFormed(gltf_animation, skeleton_index, skeleton_len) ==
    /\ Len(gltf_animation.channels) = Len(gltf_animation.samplers)
    /\ Len(gltf_animation.channels) >= 1
    /\ \A k \in DOMAIN gltf_animation.channels :
          /\ gltf_animation.channels[k].sampler = k - 1
          /\ gltf_animation.samplers[k].interpolation = "Linear"
          /\ gltf_animation.samplers[k].input = gltf_animation.samplers[1].input
          /\ k > 1 => /\ gltf_animation.channels[k].target = [node |-> k - 2, path |-> "Rotation"]
                      /\ k - 2 < skeleton_len
    /\ gltf_animation.channels[1].target = [node |-> skeleton_index, path |-> "Translation"]

\* C24 as stated: every exported animation is well formed in the sense
\* above and has exactly one rotation channel per joint of the skeleton.
C24_Original ==
    mode = "gltf" =>
        \A a \in DOMAIN GltfRoot.animations :
            /\ ChannelsWellFormed(GltfRoot.animations[a], output3.skeleton_index,
                                  Len(output3.scene.skeleton))
            /\ Len(GltfRoot.animations[a].channels) - 1 = Len(output3.scene.skeleton)

\* C24, amended: every exported animation is well formed in the sense above
\* and has one rotation channel for each of the first min(J, T) joints, where
\* J is the number of joints and T the largest number of transforms of a
\* keyframe of the animation (0 without keyframes); so there are never more
\* rotation channels than joints.
C24_ChannelsPerAnimatedJoint ==
    mode = "gltf" =>
        \A a \in DOMAIN GltfRoot.animations :
            /\ ChannelsWellFormed(GltfRoot.animations[a], output3.skeleton_index,
                                  Len(output3.scene.skeleton))
            /\ Len(GltfRoot.animations[a].channels) - 1 =
                  Min(Len(AnimationJoints(output3.scene.animations[a])),
                      Len(output3.scene.skeleton))

\* An animation whose keyframes have two transforms was exported with a
\* skeleton of three joints: two rotation channels.
C24_Witness ==
    /\ mode = "gltf" /\ pc = "done"
    /\ Len(output3.scene.skeleton) = 3
    /\ Len(GltfRoot.animations) >= 1
    /\ Len(AnimationJoints(output3.scene.animations[1])) = 2
    /\ Len(GltfRoot.animations[1].channels) = 3
    /\ GltfRoot.animations[1].channels[3].target = [node |-> 1, path |-> "Rotation"]

(***************************************************************************)
(* The world translation of a joint (src/conversion/scene.rs)              *)
(***************************************************************************)
MaxWorldJoints == 3

\* Sample translations: no sum of up to MaxWorldJoints + 1 of them equals
\* another such sum with other multiplicities.
WorldTranslations == {Vec3A(1, 0, 0), Vec3A(0, 10, 100)}

\* Skeletons of 1..MaxWorldJoints joints with every choice of parent links
\* inside the skeleton: forests, and skeletons with a cycle.  The function
\* reads the translation and parent of a joint only.
WorldSkeletons ==
    UNION {{[k \in 1..n |-> Joint(t[k], p[k], <<>>)] :
                t \in [1..n -> WorldTranslations],
                p \in [1..n -> {None} \cup {Some(j) : j \in 0..(n - 1)}]} :
           n \in 1..MaxWorldJoints}

InitWorld ==
    /\ mode = "world" /\ pc = "call"
    /\ input \in [skeleton : WorldSkeletons, index : 0..MaxWorldJoints]
    /\ output = <<>> /\ output2 = <<>> /\ output3 = <<>> /\ reader = <<>>
    /\ files = <<>> /\ cursor = 0 /\ acc = None /\ importLog = <<>> /\ exported = <<>>

\* A call of scene.joint_world_translation(index).
WorldCall ==
    /\ mode = "world" /\ pc = "call"
    /\ output' = JointWorldTranslation(input.skeleton, input.index)
    /\ pc' = IF output'.kind = "ok" THEN "done" ELSE Ended(output')
    /\ UNCHANGED <<mode, convVars, input, output2, output3, reader>>

NextWorld == WorldCall

SpecWorld == InitWorld /\ [][NextWorld]_vars

\* The parents of the joints of S.
ParentsOf(skeleton, S) ==
    {skeleton[j + 1].parent[1] : j \in {k \in S : skeleton[k + 1].parent # None}}

RECURSIVE AncestorsUpTo(_, _, _)
\* S and the joints reached from S by at most n parent links.
AncestorsUpTo(skeleton, S, n) ==
    IF n = 0 THEN S ELSE AncestorsUpTo(skeleton, S \cup ParentsOf(skeleton, S), n - 1)

\* The ancestors of joint i: its parent, the parent's parent, and so on.
ProperAncestors(skeleton, i) ==
    AncestorsUpTo(skeleton, ParentsOf(skeleton, {i}), Len(skeleton))

\* The parent links form a forest: they stay inside the skeleton and no
\* joint is its own ancestor.
IsForest(skeleton) ==
    /\ \A k \in DOMAIN skeleton :
          skeleton[k].parent = None \/ skeleton[k].parent[1] < Len(skeleton)
    /\ \A k \in DOMAIN skeleton : (k - 1) \notin ProperAncestors(skeleton, k - 1)

RECURSIVE SumTranslations(_, _)
\* The sum of the translations of the joints of S, each counted once.
SumTranslations(skeleton, S) ==
    IF S = {} THEN Vec3A(0, 0, 0)
    ELSE LET j == CHOOSE k \in S : TRUE
         IN Vec3AAdd(skeleton[j + 1].translation, SumTranslations(skeleton, S \ {j}))

\* C25: for a skeleton whose parent links form a forest and a joint i of it,
\* joint_world_translation(i) returns the sum of the translations of joint i
\* and of all its ancestors, each counted once; for a root joint that is the
\* joint's own translation.
C25_WorldTranslationIsAncestorSum ==
    (/\ mode = "world" /\ pc # "call"
     /\ input.index < Len(input.skeleton)
     /\ IsForest(input.skeleton)) =>
        /\ output.kind = "ok"
        /\ output.val = SumTranslations(input.skeleton,
                            {input.index} \cup ProperAncestors(input.skeleton, input.index))
        /\ input.skeleton[input.index + 1].parent = None =>
              output.val = input.skeleton[input.index + 1].translation

\* The world translation of a joint with a parent and a grandparent was
\* computed in a forest.
C25_Witness ==
    /\ mode = "world" /\ pc = "done"
    /\ input.index < Len(input.skeleton)
    /\ IsForest(input.skeleton)
    /\ Cardinality(ProperAncestors(input.skeleton, input.index)) = 2

(***************************************************************************)
(* Claims about the termination of the P3M import                          *)
(***************************************************************************)
\* The parent links of a skeleton alone: every translation is the zero vector
\* (decoded translations are byte strings, which are not added here).
ParentLinks(skeleton) ==
    [k \in DOMAIN skeleton |-> [skeleton[k] EXCEPT !.translation = Vec3A(0, 0, 0)]]

\* C26: the skeleton the import bone resolver returns for decoded bones has
\* no cycle in its parent links (no joint is its own ancestor), so that
\* joint_world_translation returns for every joint and vertex conversion
\* finishes.
C26_ImportedSkeletonAcyclic ==
    (mode = "joints" /\ pc = "imported") =>
        \A j \in DOMAIN output2.val :
            /\ (j - 1) \notin ProperAncestors(output2.val, j - 1)
            /\ JointWorldTranslation(ParentLinks(output2.val), j - 1).kind = "ok"

\* C27: at every step of an interchange export there are as many accessors
\* as buffer views and accessor i refers to buffer view i; every buffer view
\* lies inside the bytes written so far; the views are in increasing offset
\* order and do not overlap; and the one buffer declared at the end has the
\* length of the bytes written.
C27_ViewsInsideBuffer ==
    mode = "gltf" =>
        /\ Len(GltfRoot.accessors) = Len(GltfRoot.buffer_views)
        /\ \A i \in DOMAIN GltfRoot.buffer_views :
              /\ GltfRoot.accessors[i].buffer_view = Some(i - 1)
              /\ GltfRoot.buffer_views[i].byte_offset # None
              /\ GltfRoot.buffer_views[i].byte_offset[1] + GltfRoot.buffer_views[i].byte_length
                    <= GltfBuffer
              /\ i > 1 =>
                    GltfRoot.buffer_views[i - 1].byte_offset[1]
                    + GltfRoot.buffer_views[i - 1].byte_length
                        <= GltfRoot.buffer_views[i].byte_offset[1]
        /\ pc = "done" => GltfRoot.buffers = <<[byte_length |-> GltfBuffer]>>
        /\ pc # "done" => GltfRoot.buffers = <<>>

\* An export is done whose buffer holds a view after padding and a view
\* that ends where the buffer ends.
C27_Witness ==
    /\ mode = "gltf" /\ pc = "done"
    /\ Len(GltfRoot.buffer_views) >= 8
    /\ GltfRoot.buffers[1].byte_length > 0
    /\ \E v \in DOMAIN GltfRoot.buffer_views :
          /\ v > 1
          /\ GltfRoot.buffer_views[v - 1].byte_offset[1] + GltfRoot.buffer_views[v - 1].byte_length
                < GltfRoot.buffer_views[v].byte_offset[1]
    /\ LET last == GltfRoot.buffer_views[Len(GltfRoot.buffer_views)]
       IN last.byte_offset[1] + last.byte_length = GltfRoot.buffers[1].byte_length

\* The children of a node as a sequence (none for a node without children).
NodeChildren(node) == IF node.children = None THEN <<>> ELSE node.children[1]

\* Each node's skin index refers to a skin of the document.
SkinIndicesExist(root) ==
    \A n \in DOMAIN root.nodes :
        root.nodes[n].skin # None => root.nodes[n].skin[1] < Len(root.skins)

\* Each skin joint, channel target, node child and scene node refers to a node
\* of the document, and each node's mesh to a mesh.
NodeIndicesExist(root) ==
    /\ \A s \in DOMAIN root.skins : \A j \in DOMAIN root.skins[s].joints :
          root.skins[s].joints[j] < Len(root.nodes)
    /\ \A a \in DOMAIN root.animations : \A c \in DOMAIN root.animations[a].channels :
          root.animations[a].channels[c].target.node < Len(root.nodes)
    /\ \A n \in DOMAIN root.nodes :
          /\ \A c \in DOMAIN NodeChildren(root.nodes[n]) :
                NodeChildren(root.nodes[n])[c] < Len(root.nodes)
          /\ root.nodes[n].mesh # None => root.nodes[n].mesh[1] < Len(root.meshes)

\* C28: in every document the export returns, each mesh node's skin index
\* refers to a skin of the document and each skin joint, animation channel
\* target and node child refers to a node of it, also when the scene has
\* meshes or animations and an empty skeleton.
C28_IndicesExist ==
    (mode = "gltf" /\ pc = "done") =>
        /\ NodeIndicesExist(GltfRoot)
        /\ SkinIndicesExist(GltfRoot)

\* The part of C28 about node indices alone.
C28_NodeIndicesExist == (mode = "gltf" /\ pc = "done") => NodeIndicesExist(GltfRoot)

(***************************************************************************)
(* FRM export after import and import after export                         *)
(* (src/format/frm/exporter.rs, src/formats/frm/importer.rs)               *)
(***************************************************************************)
MaxRoundTripFrames == 2

\* Mat4::to_cols_array_2d: the four columns of a matrix
Mat4ToColsArray2d(m) == <<m.x_axis, m.y_axis, m.z_axis, m.w_axis>>

\* Exporter lines 44-54: the frame the closure builds for one keyframe.
ExportFrame(prev_root_trans, keyframe) ==
    [option |-> 0,
     plus_x |-> keyframe.translation.x - prev_root_trans.x,
     pos_y |-> keyframe.translation.y,
     pos_z |-> keyframe.translation.z - prev_root_trans.z,
     bones |-> [k \in DOMAIN keyframe.transforms |-> Mat4ToColsArray2d(keyframe.transforms[k])]]

\* Exporter line 39: the state of convert_frames before the first keyframe.
ExportFramesStart == [prev_root_trans |-> Vec3A(0, 0, 0), frames |-> <<>>]

\* Sample frames and keyframes of one bone.
RoundTripFrames ==
    [option : {0}, plus_x : {1, 2}, pos_y : {1, 3}, pos_z : {0, 5}, bones : {<<MatrixA>>}]

RoundTripKeyframes ==
    {Keyframe(Vec3A(x, y, z), <<Mat4FromColsArray2d(MatrixA)>>) :
        x \in {1, 4}, y \in {1, 3}, z \in {0, 5}}

\* A file's frames are imported and the keyframes exported, or an
\* animation's keyframes are exported and the frames imported.
InitFrmRoundTrip ==
    /\ mode = "frm_round_trip"
    /\ input \in [first : {"import"}, frames : SeqsUpTo(RoundTripFrames, MaxRoundTripFrames),
                  keyframes : {<<>>}]
                 \cup
                 [first : {"export"}, frames : {<<>>},
                  keyframes : SeqsUpTo(RoundTripKeyframes, MaxRoundTripFrames)]
    /\ pc = input.first
    /\ reader = IF input.first = "import" THEN ConvertFramesStart ELSE ExportFramesStart
    /\ output = <<>> /\ output2 = <<>> /\ output3 = <<>>
    /\ files = <<>> /\ cursor = 0 /\ acc = None /\ importLog = <<>> /\ exported = <<>>

\* The frames the importer reads and the keyframes the exporter reads: the
\* input, or the result of the other conversion.
RoundTripFramesIn == IF input.first = "import" THEN input.frames ELSE output2

RoundTripKeyframesIn == IF input.first = "export" THEN input.keyframes ELSE output

\* Importer lines 40-53: the closure of map runs on the next frame.
RoundTripImportNext ==
    /\ mode = "frm_round_trip" /\ pc = "import"
    /\ Len(reader.keyframes) < Len(RoundTripFramesIn)
    /\ LET keyframe == ConvertFrame(reader.prev_root_trans,
                                    RoundTripFramesIn[Len(reader.keyframes) + 1])
       IN reader' = [prev_root_trans |-> keyframe.translation,
                     current_time |-> reader.current_time + 1,
                     keyframes |-> Append(reader.keyframes, keyframe)]
    /\ UNCHANGED <<mode, pc, convVars, input, output, output2, output3>>

\* Importer line 54: collect() returns the keyframes.
RoundTripImportCollect ==
    /\ mode = "frm_round_trip" /\ pc = "import"
    /\ Len(reader.keyframes) = Len(RoundTripFramesIn)
    /\ output' = reader.keyframes
    /\ pc' = IF input.first = "import" THEN "export" ELSE "done"
    /\ reader' = ExportFramesStart
    /\ UNCHANGED <<mode, convVars, input, output2, output3>>

\* Exporter lines 43-58: the closure of map runs on the next keyframe.
RoundTripExportNext ==
    /\ mode = "frm_round_trip" /\ pc = "export"
    /\ Len(reader.frames) < Len(RoundTripKeyframesIn)
    /\ LET keyframe == RoundTripKeyframesIn[Len(reader.frames) + 1]
       IN reader' = [prev_root_trans |-> keyframe.translation,
                     frames |-> Append(reader.frames,
                                       ExportFrame(reader.prev_root_trans, keyframe))]
    /\ UNCHANGED <<mode, pc, convVars, input, output, output2, output3>>

\* Exporter line 59: collect() returns the frames.
RoundTripExportCollect ==
    /\ mode = "frm_round_trip" /\ pc = "export"
    /\ Len(reader.frames) = Len(RoundTripKeyframesIn)
    /\ output2' = reader.frames
    /\ pc' = IF input.first = "export" THEN "import" ELSE "done"
    /\ reader' = ConvertFramesStart
    /\ UNCHANGED <<mode, convVars, input, output, output3>>

NextFrmRoundTrip ==
    \/ RoundTripImportNext
    \/ RoundTripImportCollect
    \/ RoundTripExportNext
    \/ RoundTripExportCollect

SpecFrmRoundTrip == InitFrmRoundTrip /\ [][NextFrmRoundTrip]_vars

\* C29: exporting the keyframes imported from a frame sequence gives frames
\* with the X offset, Y value and Z value of the original frames, and
\* importing the frames exported from a keyframe sequence gives keyframes
\* with the original root translations.
C29_FrmRoundTrip ==
    (mode = "frm_round_trip" /\ pc = "done") =>
        /\ input.first = "import" =>
              /\ Len(output2) = Len(input.frames)
              /\ \A i \in DOMAIN input.frames :
                    /\ output2[i].plus_x = input.frames[i].plus_x
                    /\ output2[i].pos_y = input.frames[i].pos_y
                    /\ output2[i].pos_z = input.frames[i].pos_z
        /\ input.first = "export" =>
              /\ Len(output) = Len(input.keyframes)
              /\ \A i \in DOMAIN input.keyframes :
                    output[i].translation = input.keyframes[i].translation

\* The part of the round trips that holds: the X offsets and Y values of the
\* frames, and the X and Y of the root translations.
C29_RoundTripXY ==
    (mode = "frm_round_trip" /\ pc = "done") =>
        /\ input.first = "import" =>
              /\ Len(output2) = Len(input.frames)
              /\ \A i \in DOMAIN input.frames :
                    /\ output2[i].plus_x = input.frames[i].plus_x
                    /\ output2[i].pos_y = input.frames[i].pos_y
                    /\ output2[i].bones = input.frames[i].bones
        /\ input.first = "export" =>
              /\ Len(output) = Len(input.keyframes)
              /\ \A i \in DOMAIN input.keyframes :
                    /\ output[i].translation.x = input.keyframes[i].translation.x
                    /\ output[i].translation.y = input.keyframes[i].translation.y

\* The accessor of the time input of exported animation a.
TimeAccessorOf(root, a) == root.accessors[root.animations[a].samplers[1].input + 1]

\* Two times kept as fractions are the same number.
TimeEq(a, b) == a.num * b.den = b.num * a.den

\* C30: the time input of an exported animation with F >= 1 frames holds F
\* times, frame i at i/55 seconds, strictly increasing from 0, and its
\* accessor declares as min the time of frame 0 and as max the time of frame
\* F - 1.
C30_TimeAccessor ==
    mode = "gltf" =>
        \A a \in DOMAIN GltfRoot.animations :
            LET animation == output3.scene.animations[a]
                times == Times(animation)
                accessor == TimeAccessorOf(GltfRoot, a)
            IN Len(animation.frames) >= 1 =>
                  /\ accessor.count = Len(animation.frames)
                  /\ Len(times) = Len(animation.frames)
                  /\ \A i \in DOMAIN times : TimeEq(times[i], [num |-> i - 1, den |-> 55])
                  /\ \A i \in DOMAIN times :
                        i > 1 => ~TimeLessEq(times[i], times[i - 1])
                  /\ accessor.min # None /\ accessor.max # None
                  /\ TimeEq(accessor.min[1][1], times[1])
                  /\ TimeEq(accessor.max[1][1], times[Len(times)])

\* The part of C30 that holds: the times written and the declared min.
C30_TimesAndMin ==
    mode = "gltf" =>
        \A a \in DOMAIN GltfRoot.animations :
            LET animation == output3.scene.animations[a]
                times == Times(animation)
                accessor == TimeAccessorOf(GltfRoot, a)
            IN Len(animation.frames) >= 1 =>
                  /\ accessor.count = Len(animation.frames)
                  /\ \A i \in DOMAIN times : TimeEq(times[i], [num |-> i - 1, den |-> 55])
                  /\ \A i \in DOMAIN times :
                        i > 1 => ~TimeLessEq(times[i], times[i - 1])
                  /\ accessor.min # None
                  /\ TimeEq(accessor.min[1][1], times[1])

Init == InitConvert

Next == NextConvert

Spec == Init /\ [][Next]_vars

====
